---- MODULE Spec2Model ----
(***************************************************************************)
(* Model of notion-export-cleaner: name resolution (path_replacing.rs),    *)
(* reference rewriting (content_replacing.rs) and the rename passes.       *)
(*                                                                         *)
(* Text is modelled byte by byte: a string is a sequence of one-character  *)
(* strings, a path is a sequence of components (each a string), an         *)
(* Option<T> is a sequence of length 0 (None) or 1 (Some).                 *)
(***************************************************************************)
EXTENDS Integers, Sequences, FiniteSets, TLC

VARIABLES
    pc,                         \* position of the run
    all_objects_by_name,        \* ObjectsMapByName, in the map's iteration order
    invalid_key,                \* the sort key of an object that has no uuid
    g,                          \* resolve_new_names: index of the current group
    paths_after_files_renamed,  \* resolve_new_names: candidate paths of the group
    new_paths_seen,             \* resolve_new_names: paths claimed in the group
    i,                          \* resolve_new_names: index in the group
    desired_path,               \* resolve_new_names: candidate under test
    add,                        \* resolve_new_names: next suffix number
    set_count,                  \* number of assignments of new_name, per uuid
    file_contents,              \* do_rename_refs_in_content: the text read from the file
    all_descriptors,            \* the descriptors as prepare_rename_refs_in_content gave them
    descriptors,                \* do_rename_refs_in_content: its working list
    result,                     \* do_rename_refs_in_content: what the call came to
    is_test,                    \* the dry-run flag
    all_files,                  \* the classified entries of the tree, in traversal order
    file_index,                 \* rename_refs_in_all_files: index of the current file
    disk,                       \* the file system: what there is at each path
    warnings,                   \* the warnings printed so far
    writes,                     \* the files written so far, in order
    renames,                    \* the calls of fs::rename so far, in order
    object_index,               \* rename_objects_files: index of the current object
    sorted_by_dir,              \* rename_directories: the objects with a directory, sorted
    dir_index,                  \* rename_directories: index of the current object
    files_by_key,               \* the classified entries of the tree, grouped by file key
    key_index,                  \* objects_from_map: index of the current key
    notion_objects              \* objects_from_map: the objects built so far

resolveVars == <<all_objects_by_name, invalid_key, g, paths_after_files_renamed,
                 new_paths_seen, i, desired_path, add, set_count>>

spliceVars == <<file_contents, all_descriptors, descriptors, result>>

rewriteVars == <<is_test, all_files, file_index, disk, warnings, writes>>

renameVars == <<renames, object_index, sorted_by_dir, dir_index>>

constructVars == <<files_by_key, key_index, notion_objects>>

vars == <<pc, resolveVars, spliceVars, rewriteVars, renameVars, constructVars>>

\* what resolve_new_names does not touch
notResolveVars == <<spliceVars, rewriteVars, renameVars, constructVars>>

\* what do_rename_refs_in_content does not touch
notSpliceVars == <<resolveVars, rewriteVars, renameVars, constructVars>>

-----------------------------------------------------------------------------
(* Bounds of the model *)

\* largest number of objects in one display-name group
MaxGroup == 3
\* largest suffix number the while loop of resolve_new_names may try
MaxAdd == 4

-----------------------------------------------------------------------------
(* Strings and paths *)

None == <<>>
Some(v) == <<v>>
IsSome(o) == Len(o) = 1
Unwrap(o) == o[1]

\* the bytes the model uses, in ascending byte order
Alphabet == <<" ", "\"", "#", "%", "&", "'", "(", ")", ".", "/", "0", "1", "2", "3",
              "4", "5", "6", "7", "8", "9", ";", "<", ">", "A", "B", "C", "D", "E",
              "F", "P", "Q", "X", "_", "a", "b", "c", "d", "e", "g", "h", "i", "l",
              "m", "n", "o", "p", "q", "s", "t", "u", "v", "x">>

Ord(c) == CHOOSE k \in 1..Len(Alphabet) : Alphabet[k] = c

\* str::cmp: lexicographic order of byte strings
RECURSIVE StrLess(_, _)
StrLess(s, t) ==
    IF t = <<>> THEN FALSE
    ELSE IF s = <<>> THEN TRUE
    ELSE IF s[1] # t[1] THEN Ord(s[1]) < Ord(t[1])
    ELSE StrLess(Tail(s), Tail(t))

StrLeq(s, t) == s = t \/ StrLess(s, t)

Digit(d) == <<"0", "1", "2", "3", "4", "5", "6", "7", "8", "9">>[d + 1]

\* format!("{}", n) of an unsigned number
RECURSIVE Dec(_)
Dec(n) == IF n < 10 THEN <<Digit(n)>> ELSE Dec(n \div 10) \o <<Digit(n % 10)>>

\* positions of '.' in a file name
DotsOf(f) == {k \in 1..Len(f) : f[k] = "."}

LastDot(f) == CHOOSE k \in DotsOf(f) : \A j \in DotsOf(f) : j <= k

\* a file name splits at its last '.', unless that '.' is its first byte
HasExt(f) == DotsOf(f) # {} /\ LastDot(f) > 1

FileName(p) == p[Len(p)]

Parent(p) == SubSeq(p, 1, Len(p) - 1)

\* Path::extension
Extension(p) ==
    LET f == FileName(p) IN
    IF HasExt(f) THEN Some(SubSeq(f, LastDot(f) + 1, Len(f))) ELSE None

\* Path::file_stem
FileStem(p) ==
    LET f == FileName(p) IN
    IF HasExt(f) THEN SubSeq(f, 1, LastDot(f) - 1) ELSE f

\* Path::with_file_name
WithFileName(p, f) == Parent(p) \o <<f>>

\* Path::with_extension: the stem, then '.' and the extension unless it is empty
WithExtension(p, e) ==
    WithFileName(p, IF e = <<>> THEN FileStem(p) ELSE FileStem(p) \o <<".">> \o e)

\* Option<&OsStr>::unwrap_or_default
UnwrapOrDefault(o) == IF IsSome(o) THEN Unwrap(o) ELSE <<>>

\* Path::components().count()
ComponentCount(p) == Len(p)

-----------------------------------------------------------------------------
(* NotionObject *)

IsPageOrDataset(obj) == obj.kind \in {"Page", "Database"}

\* the key resolve_new_names sorts a group by
GetUuidOrInvalid(obj) == IF IsPageOrDataset(obj) THEN obj.uuid ELSE invalid_key

\* the ghost counter of assignments that goes with TrySetNewName
CountSet(obj, counts) ==
    IF IsPageOrDataset(obj)
    THEN [counts EXCEPT ![obj.uuid] = @ + 1]
    ELSE counts

\* insertion of one object into a list sorted by key, after every equal key
RECURSIVE InsertByUuid(_, _)
InsertByUuid(obj, sorted) ==
    IF sorted = <<>> THEN <<obj>>
    ELSE IF StrLess(GetUuidOrInvalid(obj), GetUuidOrInvalid(Head(sorted)))
         THEN <<obj>> \o sorted
         ELSE <<Head(sorted)>> \o InsertByUuid(obj, Tail(sorted))

\* objects.sort_by(uuid): a stable sort
RECURSIVE SortByUuid(_)
SortByUuid(objs) ==
    IF objs = <<>> THEN <<>>
    ELSE InsertByUuid(objs[Len(objs)], SortByUuid(SubSeq(objs, 1, Len(objs) - 1)))

\* the path an object would have with its uuid stripped, None if it has no uuid
PathAfterFileRenamed(obj, name) ==
    IF ~IsPageOrDataset(obj) THEN None
    ELSE LET path == obj.path
             extension == Unwrap(Extension(path))
         IN  Some(WithFileName(path, name \o <<".">> \o extension))

\* the candidate of one round of the while loop
NextDesiredPath(path, name, n) ==
    WithExtension(WithFileName(path, name \o <<" ">> \o Dec(n)),
                  UnwrapOrDefault(Extension(path)))

-----------------------------------------------------------------------------
(* Text search and the encodings of a reference *)

\* does pat occur in text at byte offset pos (from 0)
OccursAt(text, pat, pos) ==
    /\ pos + Len(pat) <= Len(text)
    /\ SubSeq(text, pos + 1, pos + Len(pat)) = pat

\* str::match_indices from offset pos on: the starts of the matches, left to
\* right, each search resuming after the previous match
RECURSIVE MatchIndicesFrom(_, _, _)
MatchIndicesFrom(text, pat, pos) ==
    LET starts == {q \in pos..(Len(text) - Len(pat)) : OccursAt(text, pat, q)}
    IN  IF starts = {} THEN <<>>
        ELSE LET first == CHOOSE q \in starts : \A r \in starts : q <= r
             IN  <<first>> \o MatchIndicesFrom(text, pat, first + Len(pat))

\* str::match_indices
MatchIndices(text, pat) == MatchIndicesFrom(text, pat, 0)

\* str::find: the offset of the first match, if any
Find(text, pat) ==
    LET starts == {pos \in 0..Len(text) : OccursAt(text, pat, pos)}
    IN  IF starts = {} THEN None
        ELSE Some(CHOOSE pos \in starts : \A q \in starts : pos <= q)

\* str::contains
Contains(text, pat) == IsSome(Find(text, pat))

\* str::replace from offset pos on
RECURSIVE ReplaceFrom(_, _, _, _)
ReplaceFrom(text, pat, new, pos) ==
    IF pos >= Len(text) THEN <<>>
    ELSE IF OccursAt(text, pat, pos)
         THEN new \o ReplaceFrom(text, pat, new, pos + Len(pat))
         ELSE <<text[pos + 1]>> \o ReplaceFrom(text, pat, new, pos + 1)

\* str::replace
Replace(text, pat, new) == ReplaceFrom(text, pat, new, 0)

\* the bytes urlencoding::encode leaves as they are
Unreserved == {"0", "1", "2", "3", "4", "5", "6", "7", "8", "9",
               "A", "B", "C", "D", "E", "F", "P", "Q", "X",
               "a", "b", "c", "d", "e", "g", "h", "i", "l", "m", "n", "o", "p", "q",
               "s", "t", "u", "v", "x", "_", "."}

\* CHARS_KEPT_BY_URI_ENCODING, as far as the alphabet goes
CharsKeptByUriEncoding == {"_", ".", "'", "(", ")", ";", "/", "&", "#"}

\* urlencoding::encode of one byte: '%' and two hexadecimal digits
PercentCode(c) ==
    CASE c = " "  -> <<"%", "2", "0">>
      [] c = "\"" -> <<"%", "2", "2">>
      [] c = "#"  -> <<"%", "2", "3">>
      [] c = "%"  -> <<"%", "2", "5">>
      [] c = "&"  -> <<"%", "2", "6">>
      [] c = "'"  -> <<"%", "2", "7">>
      [] c = "("  -> <<"%", "2", "8">>
      [] c = ")"  -> <<"%", "2", "9">>
      [] c = "/"  -> <<"%", "2", "F">>
      [] c = ";"  -> <<"%", "3", "B">>
      [] c = "<"  -> <<"%", "3", "C">>
      [] c = ">"  -> <<"%", "3", "E">>

\* urlencoding::encode
RECURSIVE UrlEncode(_)
UrlEncode(text) ==
    IF text = <<>> THEN <<>>
    ELSE (IF Head(text) \in Unreserved THEN <<Head(text)>> ELSE PercentCode(Head(text)))
         \o UrlEncode(Tail(text))

\* the loop of encode_uri over the kept characters, the set given as a list
RECURSIVE RestoreKept(_, _)
RestoreKept(text, kept) ==
    IF kept = {} THEN text
    ELSE LET c == CHOOSE c \in kept : TRUE
         IN  CHOOSE restored \in {RestoreKept(replaced, kept \ {c}) :
                                     replaced \in {Replace(text, UrlEncode(<<c>>), <<c>>)}} : TRUE

\* encode_uri
EncodeUri(text) == RestoreKept(UrlEncode(text), CharsKeptByUriEncoding)

\* html_escape::encode_safe of one byte
HtmlSafe(c) ==
    CASE c = "&"  -> <<"&", "a", "m", "p", ";">>
      [] c = "<"  -> <<"&", "l", "t", ";">>
      [] c = ">"  -> <<"&", "g", "t", ";">>
      [] c = "\"" -> <<"&", "q", "u", "o", "t", ";">>
      [] c = "'"  -> <<"&", "#", "x", "2", "7", ";">>
      [] c = "/"  -> <<"&", "#", "x", "2", "F", ";">>
      [] OTHER    -> <<c>>

\* html_escape::encode_safe
RECURSIVE HtmlEncodeSafe(_)
HtmlEncodeSafe(text) ==
    IF text = <<>> THEN <<>> ELSE HtmlSafe(Head(text)) \o HtmlEncodeSafe(Tail(text))

\* "name uuid", the stem of every file and directory of a Page or Database
NameUuid(name, uuid) == name \o <<" ">> \o uuid

\* NotionObject::get_name_uuid
GetNameUuid(obj) == NameUuid(obj.name, obj.uuid)

\* the four (old_ref, new_ref) pairs of an object that has its new name:
\* as written, uri-encoded, html-encoded, html- then uri-encoded
GlobalReferences(old_name, new_name) ==
    << [old_ref |-> old_name, new_ref |-> new_name],
       [old_ref |-> EncodeUri(old_name), new_ref |-> EncodeUri(new_name)],
       [old_ref |-> HtmlEncodeSafe(old_name), new_ref |-> HtmlEncodeSafe(new_name)],
       [old_ref |-> EncodeUri(HtmlEncodeSafe(old_name)),
        new_ref |-> EncodeUri(HtmlEncodeSafe(new_name))] >>

\* sets new_name of a Page or Database, and with it the references to
\* replace; any other object is left as it is
TrySetNewName(obj, new_name) ==
    IF IsPageOrDataset(obj)
    THEN [obj EXCEPT !.new_name = Some(new_name),
                     !.replacable_refs = Some(GlobalReferences(GetNameUuid(obj), new_name))]
    ELSE obj

-----------------------------------------------------------------------------
(* The objects of the model *)

\* the display names: one plain, one that contains a '.'
NamePlain == <<"P">>
NameDotted == <<"P", ".", "x">>
Names == {NamePlain, NameDotted}

Uuids == {<<"a", "1">>, <<"b", "2">>, <<"c", "3">>}

\* the export's root directory and a directory below it
DirRoot == << <<"X">> >>
DirSub == << <<"X">>, <<"Q">> >>
Dirs == {DirRoot, DirSub}

ExtMd == <<"m", "d">>
ExtCsv == <<"c", "s", "v">>
ExtHtml == <<"h", "t", "m", "l">>
ExtTxt == <<"t", "x", "t">>
ExtBin == <<"b", "i", "n">>

\* a Page whose file is "name uuid.ext" in dir; owns says whether the
\* directory "name uuid" exists beside it
PageObject(dir, name, uuid, ext, owns) ==
    [kind |-> "Page",
     path |-> dir \o <<NameUuid(name, uuid) \o <<".">> \o ext>>,
     name |-> name, uuid |-> uuid,
     dir_path |-> IF owns THEN Some(dir \o <<NameUuid(name, uuid)>>) ELSE None,
     new_name |-> None, replacable_refs |-> None,
     csv_all_path |-> None, html_path |-> None]

\* a Database whose view is "name uuid.csv" in dir, with its companions
DatabaseObject(dir, name, uuid, owns, all, html) ==
    [kind |-> "Database",
     path |-> dir \o <<NameUuid(name, uuid) \o <<".">> \o ExtCsv>>,
     name |-> name, uuid |-> uuid,
     dir_path |-> IF owns THEN Some(dir \o <<NameUuid(name, uuid)>>) ELSE None,
     new_name |-> None, replacable_refs |-> None,
     csv_all_path |-> IF all
                      THEN Some(dir \o <<NameUuid(name, uuid) \o <<"_", "a", "l", "l", ".">> \o ExtCsv>>)
                      ELSE None,
     html_path |-> IF html
                   THEN Some(dir \o <<NameUuid(name, uuid) \o <<".">> \o ExtHtml>>)
                   ELSE None]

\* an OtherText or OtherBinary object: a path and nothing else
OtherObject(kind, dir, stem, ext) ==
    [kind |-> kind,
     path |-> dir \o <<stem \o <<".">> \o ext>>,
     name |-> <<>>, uuid |-> <<>>, dir_path |-> None,
     new_name |-> None, replacable_refs |-> None,
     csv_all_path |-> None, html_path |-> None]

\* NotionObject::get_name: the key of build_map_by_name
GetName(obj) == IF IsPageOrDataset(obj) THEN obj.name ELSE FileStem(obj.path)

\* the objects a group of display name nm can hold
GroupMembers(nm) ==
    {PageObject(d, nm, u, ExtMd, FALSE) : d \in Dirs, u \in Uuids}
    \cup {DatabaseObject(d, nm, u, FALSE, FALSE, FALSE) : d \in Dirs, u \in Uuids}
    \cup {OtherObject("OtherText", DirRoot, nm, ExtTxt),
          OtherObject("OtherBinary", DirSub, nm, ExtBin)}

\* no two objects of a list share a path, and no two Page/Database a uuid
DistinctObjects(objs) ==
    \A j, k \in 1..Len(objs) :
        j # k => /\ objs[j].path # objs[k].path
                 /\ (IsPageOrDataset(objs[j]) /\ IsPageOrDataset(objs[k]))
                        => objs[j].uuid # objs[k].uuid

\* the lists of n objects of display name nm, in every order
GroupsOfSize(nm, n) ==
    {objs \in [1..n -> GroupMembers(nm)] : DistinctObjects(objs)}

-----------------------------------------------------------------------------
(* resolve_new_names *)

Group == all_objects_by_name[g]

\* resolve_new_names is not under way
IdleResolve ==
    /\ all_objects_by_name = <<>>
    /\ invalid_key = <<>>
    /\ g = 1
    /\ paths_after_files_renamed = <<>>
    /\ new_paths_seen = {}
    /\ i = 1
    /\ desired_path = <<>>
    /\ add = 1
    /\ set_count = [u \in Uuids |-> 0]

\* no rename pass is under way
\* no entry has been classified
IdleConstruct ==
    /\ files_by_key = <<>>
    /\ key_index = 1
    /\ notion_objects = <<>>

IdleRename ==
    /\ renames = <<>>
    /\ object_index = 1
    /\ sorted_by_dir = <<>>
    /\ dir_index = 1

\* no tree has been read
IdleRewrite ==
    /\ is_test = FALSE
    /\ all_files = <<>>
    /\ file_index = 1
    /\ disk = <<>>
    /\ warnings = <<>>
    /\ writes = <<>>

\* no call of do_rename_refs_in_content is under way
IdleSplice ==
    /\ file_contents = <<>>
    /\ all_descriptors = <<>>
    /\ descriptors = <<>>
    /\ result = [kind |-> "pending", text |-> <<>>]

\* the state before resolve_new_names is called on one group
InitResolve ==
    /\ pc = "group"
    /\ \E nm \in Names, n \in 1..MaxGroup :
         \E objs \in GroupsOfSize(nm, n) :
            all_objects_by_name = << [name |-> nm, objects |-> objs] >>
    /\ invalid_key \in {<<>>, <<"i", "n", "v", "a", "l", "i", "d">>}
    /\ g = 1
    /\ paths_after_files_renamed = <<>>
    /\ new_paths_seen = {}
    /\ i = 1
    /\ desired_path = <<>>
    /\ add = 1
    /\ set_count = [u \in Uuids |-> 0]
    /\ IdleSplice
    /\ IdleRewrite
    /\ IdleRename
    /\ IdleConstruct

\* a group of one object: it takes the display name
GroupSingle ==
    /\ pc = "group"
    /\ g <= Len(all_objects_by_name)
    /\ Len(Group.objects) = 1
    /\ all_objects_by_name' =
         [all_objects_by_name EXCEPT ![g].objects[1] = TrySetNewName(@, Group.name)]
    /\ set_count' = CountSet(Group.objects[1], set_count)
    /\ g' = g + 1
    /\ UNCHANGED <<notResolveVars, pc, invalid_key, paths_after_files_renamed, new_paths_seen, i,
                   desired_path, add>>

\* a larger group: the candidate paths are collected, then the objects sorted
GroupStart ==
    /\ pc = "group"
    /\ g <= Len(all_objects_by_name)
    /\ Len(Group.objects) # 1
    /\ paths_after_files_renamed' =
         [k \in 1..Len(Group.objects) |-> PathAfterFileRenamed(Group.objects[k], Group.name)]
    /\ all_objects_by_name' =
         [all_objects_by_name EXCEPT ![g].objects = SortByUuid(@)]
    /\ new_paths_seen' = {}
    /\ i' = 1
    /\ pc' = "object"
    /\ UNCHANGED <<notResolveVars, invalid_key, g, desired_path, add, set_count>>

\* the i-th candidate is None: the i-th object is passed over
ObjectSkip ==
    /\ pc = "object"
    /\ i <= Len(Group.objects)
    /\ ~IsSome(paths_after_files_renamed[i])
    /\ i' = i + 1
    /\ UNCHANGED <<notResolveVars, pc, all_objects_by_name, invalid_key, g, paths_after_files_renamed,
                   new_paths_seen, desired_path, add, set_count>>

\* the i-th candidate is a path: the search for a free path starts from it
ObjectBegin ==
    /\ pc = "object"
    /\ i <= Len(Group.objects)
    /\ IsSome(paths_after_files_renamed[i])
    /\ desired_path' = Unwrap(paths_after_files_renamed[i])
    /\ add' = 1
    /\ pc' = "while"
    /\ UNCHANGED <<notResolveVars, all_objects_by_name, invalid_key, g, paths_after_files_renamed,
                   new_paths_seen, i, set_count>>

\* one round of the while loop: the candidate is taken, the next one is built
WhileIter ==
    /\ pc = "while"
    /\ desired_path \in new_paths_seen
    /\ add <= MaxAdd
    /\ desired_path' = NextDesiredPath(desired_path, Group.name, add)
    /\ add' = add + 1
    /\ UNCHANGED <<notResolveVars, pc, all_objects_by_name, invalid_key, g, paths_after_files_renamed,
                   new_paths_seen, i, set_count>>

\* the candidate is free: it is claimed and its stem becomes the new name
WhileExit ==
    /\ pc = "while"
    /\ desired_path \notin new_paths_seen
    /\ new_paths_seen' = new_paths_seen \cup {desired_path}
    /\ all_objects_by_name' =
         [all_objects_by_name EXCEPT ![g].objects[i] = TrySetNewName(@, FileStem(desired_path))]
    /\ set_count' = CountSet(Group.objects[i], set_count)
    /\ i' = i + 1
    /\ pc' = "object"
    /\ UNCHANGED <<notResolveVars, invalid_key, g, paths_after_files_renamed, desired_path, add>>

\* the group is done
GroupEnd ==
    /\ pc = "object"
    /\ i > Len(Group.objects)
    /\ g' = g + 1
    /\ pc' = "group"
    /\ UNCHANGED <<notResolveVars, all_objects_by_name, invalid_key, paths_after_files_renamed,
                   new_paths_seen, i, desired_path, add, set_count>>

\* resolve_new_names returns
ResolveReturn ==
    /\ pc = "group"
    /\ g > Len(all_objects_by_name)
    /\ pc' = "resolved"
    /\ UNCHANGED <<notResolveVars, all_objects_by_name, invalid_key, g, paths_after_files_renamed,
                   new_paths_seen, i, desired_path, add, set_count>>

NextResolve ==
    \/ GroupSingle
    \/ GroupStart
    \/ ObjectSkip
    \/ ObjectBegin
    \/ WhileIter
    \/ WhileExit
    \/ GroupEnd
    \/ ResolveReturn

SpecResolve == InitResolve /\ [][NextResolve]_vars

-----------------------------------------------------------------------------
(* resolve_new_names as a function of the group's list, for comparing runs *)

\* the while loop from candidate path with suffix number n, given the claimed paths
RECURSIVE FindFreePath(_, _, _, _)
FindFreePath(path, name, seen, n) ==
    IF path \notin seen \/ n > MaxAdd THEN path
    ELSE FindFreePath(NextDesiredPath(path, name, n), name, seen, n + 1)

\* the for loop over the sorted objects from index k on
RECURSIVE ResolveFrom(_, _, _, _, _)
ResolveFrom(objs, paths, name, seen, k) ==
    IF k > Len(objs) THEN objs
    ELSE IF ~IsSome(paths[k]) THEN ResolveFrom(objs, paths, name, seen, k + 1)
    ELSE LET free == FindFreePath(Unwrap(paths[k]), name, seen, 1)
         IN  ResolveFrom([objs EXCEPT ![k] = TrySetNewName(@, FileStem(free))],
                         paths, name, seen \cup {free}, k + 1)

\* the body of resolve_new_names for one group given in the order objs
ResolveGroup(objs, name) ==
    IF Len(objs) = 1 THEN <<TrySetNewName(objs[1], name)>>
    ELSE ResolveFrom(SortByUuid(objs),
                     [k \in 1..Len(objs) |-> PathAfterFileRenamed(objs[k], name)],
                     name, {}, 1)

\* the resolved name each uuid has in a list of objects
NewNameOf(objs, uuid) ==
    LET k == CHOOSE k \in 1..Len(objs) : IsPageOrDataset(objs[k]) /\ objs[k].uuid = uuid
    IN  objs[k].new_name

UuidsOf(objs) == {objs[k].uuid : k \in {j \in 1..Len(objs) : IsPageOrDataset(objs[j])}}

\* the orders a list can be given in
Orders(objs) ==
    {[k \in 1..Len(objs) |-> objs[perm[k]]] :
        perm \in {f \in [1..Len(objs) -> 1..Len(objs)] :
                    \A j, k \in 1..Len(objs) : j # k => f[j] # f[k]}}

\* a list of objects as it is before resolution
Unresolved(objs) == [k \in 1..Len(objs) |-> [objs[k] EXCEPT !.new_name = None, !.replacable_refs = None]]

-----------------------------------------------------------------------------
(* Name resolution: C1 .. C4 *)

\* the indices of the Page/Database objects of the group under resolution
Renamable == {k \in 1..Len(all_objects_by_name[1].objects) :
                IsPageOrDataset(all_objects_by_name[1].objects[k])}

Obj(k) == all_objects_by_name[1].objects[k]

\* two objects contend for one path: same directory, same extension
SameSlot(a, b) ==
    /\ Parent(a.path) = Parent(b.path)
    /\ Extension(a.path) = Extension(b.path)

\* C1: once resolve_new_names has returned, the resolved names of the
\* Page/Database objects of a group are pairwise distinct. Stated for the
\* objects that contend for one path (same directory, same extension), the
\* case in which equal names make two renames hit one target.
C1_DistinctNames ==
    pc = "resolved" =>
        \A j, k \in Renamable :
            (j # k /\ SameSlot(Obj(j), Obj(k))) => Obj(j).new_name # Obj(k).new_name

\* C2: the resolved name of every object is the same for every order in
\* which the group's list is given to resolve_new_names.
C2_OrderIndependent ==
    pc = "resolved" =>
        \A objs \in Orders(Unresolved(all_objects_by_name[1].objects)) :
            \A u \in UuidsOf(objs) :
                NewNameOf(ResolveGroup(objs, all_objects_by_name[1].name), u)
                    = NewNameOf(all_objects_by_name[1].objects, u)

\* C3: of two Page/Database objects of display name N with uuids a < b, a is
\* resolved to N and b to N followed by " 1". Stated for a group of exactly
\* these two objects, in one directory and with one extension.
C3_SecondGetsSuffixOne ==
    (/\ pc = "resolved"
     /\ Len(all_objects_by_name[1].objects) = 2
     /\ Renamable = {1, 2}
     /\ SameSlot(Obj(1), Obj(2)))
    => \A j, k \in Renamable :
          StrLess(Obj(j).uuid, Obj(k).uuid) =>
              /\ Obj(j).new_name = Some(all_objects_by_name[1].name)
              /\ Obj(k).new_name = Some(all_objects_by_name[1].name \o <<" ", "1">>)

\* C4: once resolve_new_names has returned, every Page/Database object has a
\* resolved name, and it was set by exactly one assignment.
C4_EveryRenamableNamedOnce ==
    pc = "resolved" =>
        \A k \in Renamable :
            /\ IsSome(Obj(k).new_name)
            /\ set_count[Obj(k).uuid] = 1

-----------------------------------------------------------------------------
(* do_rename_refs_in_content *)

\* largest number of descriptors given to do_rename_refs_in_content
MaxDescriptors == 3
\* length of the text the descriptors are ranges of
ContentLen == 5

\* file_contents[a..b], with byte offsets from 0
Slice(text, a, b) == SubSeq(text, a + 1, b)

\* ReplaceDescriptor::new_from_borrowed / new_from_owned
ReplaceDescriptor(start, end, new_text) ==
    [start |-> start, end |-> end, new_text |-> new_text]

\* the assertion of both constructors
ValidRange(start, end) == start < end

\* insertion of one descriptor into a list sorted by start, after every equal start
RECURSIVE InsertByStart(_, _)
InsertByStart(d, sorted) ==
    IF sorted = <<>> THEN <<d>>
    ELSE IF d.start < Head(sorted).start
         THEN <<d>> \o sorted
         ELSE <<Head(sorted)>> \o InsertByStart(d, Tail(sorted))

\* descriptors.sort_by_key(start): a stable sort
RECURSIVE SortByStart(_)
SortByStart(ds) ==
    IF ds = <<>> THEN <<>>
    ELSE InsertByStart(ds[Len(ds)], SortByStart(SubSeq(ds, 1, Len(ds) - 1)))

\* Vec::remove of the k-th element (k from 1)
RemoveAt(ds, k) == SubSeq(ds, 1, k - 1) \o SubSeq(ds, k + 1, Len(ds))

\* the loop "for desc_index in (1..len).rev()", from the k-th element down:
\* an element that starts before the end of the element just before it is removed
RECURSIVE RemoveOverlaps(_, _)
RemoveOverlaps(ds, k) ==
    IF k < 2 THEN ds
    ELSE IF ds[k].start < ds[k - 1].end
         THEN RemoveOverlaps(RemoveAt(ds, k), k - 1)
         ELSE RemoveOverlaps(ds, k - 1)

\* the reconstruction loop with the cursor left at the start of each range
RECURSIVE RebuildCursorAtStart(_, _, _, _, _)
RebuildCursorAtStart(text, ds, k, last_end, new_contents) ==
    IF k > Len(ds)
    THEN [kind |-> "some", text |-> new_contents \o Slice(text, last_end, Len(text))]
    ELSE IF last_end > ds[k].start \/ ds[k].start > Len(text)
         THEN [kind |-> "panic", text |-> <<>>]
         ELSE RebuildCursorAtStart(text, ds, k + 1, ds[k].start,
                      new_contents \o Slice(text, last_end, ds[k].start) \o ds[k].new_text)

\* the reconstruction loop from the k-th kept descriptor on; the slice
\* file_contents[last_end..start] panics when last_end > start
RECURSIVE Rebuild(_, _, _, _, _)
Rebuild(text, ds, k, last_end, new_contents) ==
    IF k > Len(ds)
    THEN [kind |-> "some", text |-> new_contents \o Slice(text, last_end, Len(text))]
    ELSE IF last_end > ds[k].start \/ ds[k].start > Len(text)
         THEN [kind |-> "panic", text |-> <<>>]
         ELSE Rebuild(text, ds, k + 1, ds[k].end,
                      new_contents \o Slice(text, last_end, ds[k].start) \o ds[k].new_text)

\* the descriptors that are left when the removal loop is over
KeptDescriptors(ds) == RemoveOverlaps(SortByStart(ds), Len(ds))

\* do_rename_refs_in_content
DoRenameRefsInContent(text, ds) ==
    IF ds = <<>> THEN [kind |-> "none", text |-> <<>>]
    ELSE Rebuild(text, KeptDescriptors(ds), 1, 0, <<>>)

\* the text of the model: every byte differs from the others
SpliceText == [k \in 1..ContentLen |-> Digit(k)]

\* the replacement text of the k-th descriptor: k times the k-th letter
ReplacementText(k) == [j \in 1..k |-> <<"A", "B", "C", "D", "E", "F">>[k]]

\* the ranges a descriptor can have in a text of n bytes
RangesIn(n) == {r \in (0..n) \X (0..n) : ValidRange(r[1], r[2])}

\* the state in which do_rename_refs_in_content is called
InitSplice ==
    /\ pc = "splice"
    /\ file_contents = SpliceText
    /\ \E n \in 0..MaxDescriptors :
         \E rs \in [1..n -> RangesIn(ContentLen)] :
            all_descriptors =
                [k \in 1..n |-> ReplaceDescriptor(rs[k][1], rs[k][2], ReplacementText(k))]
    /\ descriptors = all_descriptors
    /\ result = [kind |-> "pending", text |-> <<>>]
    /\ IdleResolve
    /\ IdleRewrite
    /\ IdleRename
    /\ IdleConstruct

\* an empty list: None is returned
SpliceEmpty ==
    /\ pc = "splice"
    /\ descriptors = <<>>
    /\ result' = DoRenameRefsInContent(file_contents, descriptors)
    /\ pc' = "spliced"
    /\ UNCHANGED <<notSpliceVars, file_contents, all_descriptors, descriptors>>

\* the sort and the removal loop
SpliceRemoveOverlaps ==
    /\ pc = "splice"
    /\ descriptors # <<>>
    /\ descriptors' = KeptDescriptors(descriptors)
    /\ pc' = "rebuild"
    /\ UNCHANGED <<notSpliceVars, file_contents, all_descriptors, result>>

\* the reconstruction of the text from the descriptors that are left
SpliceRebuild ==
    /\ pc = "rebuild"
    /\ result' = Rebuild(file_contents, descriptors, 1, 0, <<>>)
    /\ pc' = "spliced"
    /\ UNCHANGED <<notSpliceVars, file_contents, all_descriptors, descriptors>>

NextSplice ==
    \/ SpliceEmpty
    \/ SpliceRemoveOverlaps
    \/ SpliceRebuild

SpecSplice == InitSplice /\ [][NextSplice]_vars

-----------------------------------------------------------------------------
(* The splice: C5, C6 *)

\* the greedy rule over a list sorted by start: a descriptor is dropped if and
\* only if it starts before the end of the last descriptor that was kept
RECURSIVE GreedyFrom(_, _, _)
GreedyFrom(sorted, k, kept) ==
    IF k > Len(sorted) THEN kept
    ELSE IF kept # <<>> /\ sorted[k].start < kept[Len(kept)].end
         THEN GreedyFrom(sorted, k + 1, kept)
         ELSE GreedyFrom(sorted, k + 1, Append(kept, sorted[k]))

Greedy(ds) == GreedyFrom(SortByStart(ds), 1, <<>>)

\* C5: the descriptors do_rename_refs_in_content applies are exactly those
\* the greedy rule keeps: a descriptor is discarded if and only if its start
\* lies before the end of the previous kept descriptor.
C5_GreedyKept ==
    pc \in {"rebuild", "spliced"} /\ all_descriptors # <<>>
        => descriptors = Greedy(all_descriptors)

RECURSIVE SumRangeLen(_)
SumRangeLen(ds) ==
    IF ds = <<>> THEN 0 ELSE (Head(ds).end - Head(ds).start) + SumRangeLen(Tail(ds))

RECURSIVE SumTextLen(_)
SumTextLen(ds) ==
    IF ds = <<>> THEN 0 ELSE Len(Head(ds).new_text) + SumTextLen(Tail(ds))

\* C6: for a list that is not empty, the text do_rename_refs_in_content
\* returns has the length of the original, minus the lengths of the applied
\* ranges, plus the lengths of the applied replacement texts.
C6_LengthOfResult ==
    pc = "spliced" /\ result.kind = "some"
        => Len(result.text)
             = Len(file_contents) - SumRangeLen(descriptors) + SumTextLen(descriptors)

\* C6 witness: a text was returned for a list of which one descriptor was
\* discarded and two were applied
C6_Witness ==
    /\ pc = "spliced"
    /\ result.kind = "some"
    /\ Len(descriptors) = 2
    /\ Len(all_descriptors) = 3
    /\ Len(result.text) # Len(file_contents)

(***************************************************************************)
(* The reference locator: prepare_rename_refs_in_content                   *)
(***************************************************************************)

NOTION_LINK_MARKER == <<"n", "o", "t", "i", "o", "n", ".", "s", "o">>

HTTPS_WINDOW_BYTE_SIZE == 30
UUID_BYTE_SIZE == 36
AFTER_LINK_WINDOW_BYTE_SIZE == 60

Min(a, b) == IF a < b THEN a ELSE b

\* the closure of filter_map: the range between the parentheses around the
\* marker found at notion_link_start, if both are found in the window
MarkerRange(text, notion_link_start) ==
    LET window_start == IF notion_link_start <= HTTPS_WINDOW_BYTE_SIZE THEN 0
                        ELSE notion_link_start - HTTPS_WINDOW_BYTE_SIZE
        window_end == Min(Len(text), notion_link_start + Len(NOTION_LINK_MARKER)
                                     + UUID_BYTE_SIZE + AFTER_LINK_WINDOW_BYTE_SIZE)
        open == Find(Slice(text, window_start, notion_link_start), <<"(">>)
        close == Find(Slice(text, notion_link_start, window_end), <<")">>)
    IN  IF IsSome(open) /\ IsSome(close)
        THEN Some([start |-> window_start + Unwrap(open) + 1,
                   end |-> notion_link_start + Unwrap(close)])
        ELSE None

RECURSIVE MarkerRangesFrom(_, _, _)
MarkerRangesFrom(text, starts, k) ==
    IF k > Len(starts) THEN <<>>
    ELSE MarkerRange(text, starts[k]) \o MarkerRangesFrom(text, starts, k + 1)

\* notion_links_markers
NotionLinksMarkers(text) ==
    MarkerRangesFrom(text, MatchIndices(text, NOTION_LINK_MARKER), 1)

\* replacable_refs: None until the object has its new name
ReplacableRefs(obj) == obj.replacable_refs

\* the length of the longest common prefix of two paths
RECURSIVE CommonPrefix(_, _)
CommonPrefix(p, q) ==
    IF p = <<>> \/ q = <<>> \/ Head(p) # Head(q) THEN 0
    ELSE 1 + CommonPrefix(Tail(p), Tail(q))

\* pathdiff::diff_paths(path, base), both relative and without ".."
DiffPaths(path, base) ==
    LET k == CommonPrefix(path, base)
    IN  [j \in 1..(Len(base) - k) |-> <<".", ".">>] \o SubSeq(path, k + 1, Len(path))

\* Path::to_str: the components joined by the separator
RECURSIVE PathToStr(_)
PathToStr(p) ==
    IF p = <<>> THEN <<>>
    ELSE IF Len(p) = 1 THEN p[1]
         ELSE p[1] \o <<"/">> \o PathToStr(Tail(p))

\* NotionObject::get_relative_path: the path from the file to the object,
\* with the old name replaced by the new one
GetRelativePath(obj, file_path) ==
    IF IsSome(obj.new_name)
    THEN Some(Replace(PathToStr(DiffPaths(obj.path, file_path)),
                      GetNameUuid(obj), Unwrap(obj.new_name)))
    ELSE None

\* one descriptor for each match of one reference
MatchDescriptors(text, ref) ==
    LET starts == MatchIndices(text, ref.old_ref)
    IN  [k \in 1..Len(starts) |->
            ReplaceDescriptor(starts[k], starts[k] + Len(ref.old_ref), ref.new_ref)]

RECURSIVE ReferenceDescriptors(_, _, _)
ReferenceDescriptors(text, refs, k) ==
    IF k > Len(refs) THEN <<>>
    ELSE MatchDescriptors(text, refs[k]) \o ReferenceDescriptors(text, refs, k + 1)

\* one descriptor for each marker range that holds the uuid of the object
RECURSIVE LinkDescriptors(_, _, _, _, _)
LinkDescriptors(text, markers, uuid, relative_path_with_new_name, k) ==
    IF k > Len(markers) THEN <<>>
    ELSE (IF Contains(Slice(text, markers[k].start, markers[k].end), uuid)
          THEN <<ReplaceDescriptor(markers[k].start, markers[k].end,
                                   relative_path_with_new_name)>>
          ELSE <<>>)
         \o LinkDescriptors(text, markers, uuid, relative_path_with_new_name, k + 1)

\* the body of the loop over all_objects, for one object
ObjectDescriptors(text, file_path, markers, obj) ==
    IF ~IsPageOrDataset(obj) THEN <<>>
    ELSE (IF IsSome(ReplacableRefs(obj))
          THEN ReferenceDescriptors(text, Unwrap(ReplacableRefs(obj)), 1)
          ELSE <<>>)
         \o (IF IsSome(GetRelativePath(obj, file_path))
             THEN LinkDescriptors(text, markers, obj.uuid,
                                  Unwrap(GetRelativePath(obj, file_path)), 1)
             ELSE <<>>)

\* the descriptors of each object computed on the text in which those of
\* the objects before it are already applied
RECURSIVE PrepareFromChained(_, _, _, _, _)
PrepareFromChained(text, file_path, markers, objs, k) ==
    IF k > Len(objs) THEN <<>>
    ELSE LET own == ObjectDescriptors(text, file_path, NotionLinksMarkers(text), objs[k])
             applied == DoRenameRefsInContent(text, own)
         IN  own \o PrepareFromChained(IF applied.kind = "some" THEN applied.text ELSE text,
                                       file_path, markers, objs, k + 1)

RECURSIVE PrepareFrom(_, _, _, _, _)
PrepareFrom(text, file_path, markers, objs, k) ==
    IF k > Len(objs) THEN <<>>
    ELSE ObjectDescriptors(text, file_path, markers, objs[k])
         \o PrepareFrom(text, file_path, markers, objs, k + 1)

\* prepare_rename_refs_in_content
PrepareRenameRefsInContent(text, file_path, all_objects) ==
    PrepareFrom(text, file_path, NotionLinksMarkers(text), all_objects, 1)

\* validate_rename_refs_in_content: the uuids of the errors, in order
RECURSIVE ValidateRenameRefsInContent(_, _, _)
ValidateRenameRefsInContent(text, all_objects, k) ==
    IF k > Len(all_objects) THEN <<>>
    ELSE (IF IsPageOrDataset(all_objects[k]) /\ Contains(text, all_objects[k].uuid)
          THEN <<all_objects[k].uuid>> ELSE <<>>)
         \o ValidateRenameRefsInContent(text, all_objects, k + 1)

(***************************************************************************)
(* The file system                                                         *)
(***************************************************************************)

\* what there is at a path: a file with its contents or a directory; origin
\* is the path it had when the tree was read
FileNode(path, contents) == [kind |-> "file", contents |-> contents, origin |-> path]

DirNode(path) == [kind |-> "dir", contents |-> <<>>, origin |-> path]

\* p is q or an ancestor of q
IsPrefix(p, q) == Len(p) <= Len(q) /\ SubSeq(q, 1, Len(p)) = p

\* the directory at path d has no entry
IsEmptyDir(fs, d) == \A q \in DOMAIN fs : q = d \/ ~IsPrefix(d, q)

\* does fs::rename(old, new) succeed: old must exist and the parent of new
\* be a directory; a file replaces a file, a directory an empty directory
RenameSucceeds(fs, old, new) ==
    /\ old \in DOMAIN fs
    /\ Parent(new) \in DOMAIN fs
    /\ fs[Parent(new)].kind = "dir"
    /\ ~(IsPrefix(old, new) /\ old # new)
    /\ (new \in DOMAIN fs /\ new # old) =>
          /\ fs[new].kind = fs[old].kind
          /\ fs[new].kind = "dir" => IsEmptyDir(fs, new)

\* the file system after a successful fs::rename(old, new): what was at old,
\* and under it, is at new; what was at new is gone
Renamed(fs, old, new) ==
    IF old = new THEN fs
    ELSE LET moved == {q \in DOMAIN fs : IsPrefix(old, q)}
             kept == (DOMAIN fs \ moved) \ {new}
             Target(q) == new \o SubSeq(q, Len(old) + 1, Len(q))
             Source(q) == old \o SubSeq(q, Len(new) + 1, Len(q))
         IN  [q \in kept \cup {Target(r) : r \in moved} |->
                 IF q \in kept THEN fs[q] ELSE fs[Source(q)]]

(***************************************************************************)
(* rename_refs_in_all_files: one step for each file of all_files           *)
(***************************************************************************)

\* the objects of every group, one list (the all_objects of the callers)
RECURSIVE FlattenFrom(_, _)
FlattenFrom(groups, k) ==
    IF k > Len(groups) THEN <<>>
    ELSE groups[k].objects \o FlattenFrom(groups, k + 1)

AllObjects == FlattenFrom(all_objects_by_name, 1)

\* FileType::is_readable_type
IsReadableType(file) == file.readable

IndexHtml == <<"i", "n", "d", "e", "x", ".", "h", "t", "m", "l">>

\* path.ends_with("index.html")
EndsWithIndexHtml(path) == path # <<>> /\ FileName(path) = IndexHtml

CurrentFile == all_files[file_index]

\* the warnings of one file: none for index.html
WarningsOf(path, errors) ==
    IF EndsWithIndexHtml(path) THEN <<>>
    ELSE [k \in 1..Len(errors) |-> [path |-> path, uuid |-> errors[k]]]

\* a file that is_readable_type filters out
RewriteSkip ==
    /\ pc = "rewrite"
    /\ file_index <= Len(all_files)
    /\ ~IsReadableType(CurrentFile)
    /\ file_index' = file_index + 1
    /\ UNCHANGED <<pc, constructVars, resolveVars, spliceVars, renameVars, is_test, all_files, disk,
                   warnings, writes>>

\* a readable file is read, its descriptors prepared and applied
RewritePrepare ==
    /\ pc = "rewrite"
    /\ file_index <= Len(all_files)
    /\ IsReadableType(CurrentFile)
    /\ LET old_contents == disk[CurrentFile.path].contents
           replace_descriptors ==
               PrepareRenameRefsInContent(old_contents, CurrentFile.path, AllObjects)
       IN  /\ file_contents' = old_contents
           /\ all_descriptors' = replace_descriptors
           /\ descriptors' = IF replace_descriptors = <<>> THEN <<>>
                             ELSE KeptDescriptors(replace_descriptors)
           /\ result' = DoRenameRefsInContent(old_contents, replace_descriptors)
    /\ pc' = "new_content"
    /\ UNCHANGED <<constructVars, resolveVars, rewriteVars, renameVars>>

\* no descriptor, no new content: nothing is validated, nothing written
RewriteUntouched ==
    /\ pc = "new_content"
    /\ result.kind = "none"
    /\ file_index' = file_index + 1
    /\ pc' = "rewrite"
    /\ UNCHANGED <<constructVars, resolveVars, spliceVars, renameVars, is_test, all_files, disk,
                   warnings, writes>>

\* a new content: validated, and written unless is_test
RewriteWrite ==
    /\ pc = "new_content"
    /\ result.kind = "some"
    /\ warnings' = warnings \o
           WarningsOf(CurrentFile.path,
                      ValidateRenameRefsInContent(result.text, AllObjects, 1))
    /\ IF is_test
       THEN UNCHANGED <<disk, writes>>
       ELSE /\ disk' = [disk EXCEPT ![CurrentFile.path].contents = result.text]
            /\ writes' = Append(writes, CurrentFile.path)
    /\ file_index' = file_index + 1
    /\ pc' = "rewrite"
    /\ UNCHANGED <<constructVars, resolveVars, spliceVars, renameVars, is_test, all_files>>

\* the slice of the reconstruction loop has panicked
RewritePanic ==
    /\ pc = "new_content"
    /\ result.kind = "panic"
    /\ pc' = "panic"
    /\ UNCHANGED <<constructVars, resolveVars, spliceVars, rewriteVars, renameVars>>

\* the loop is over
RewriteReturn ==
    /\ pc = "rewrite"
    /\ file_index > Len(all_files)
    /\ pc' = "rewritten"
    /\ UNCHANGED <<constructVars, resolveVars, spliceVars, rewriteVars, renameVars>>

(***************************************************************************)
(* The trees and the file contents of the rewrite                          *)
(***************************************************************************)

\* the number of pieces a file content is made of
MaxPieces == 3

NameAmp == <<"A", "&", "B">>

UuidA == <<"a", "1">>
UuidB == <<"b", "2">>
UuidC == <<"c", "3">>

PageA == PageObject(DirRoot, NamePlain, UuidA, ExtMd, FALSE)
PageB == PageObject(DirRoot, NamePlain, UuidB, ExtMd, FALSE)
PageC == PageObject(DirSub, NameAmp, UuidC, ExtMd, FALSE)

\* the groups of build_map_by_name once resolve_new_names has returned
GroupPlain == [name |-> NamePlain, objects |-> ResolveGroup(<<PageA, PageB>>, NamePlain)]
GroupAmp == [name |-> NameAmp, objects |-> ResolveGroup(<<PageC>>, NameAmp)]

\* the map is iterated in either order
RewriteTables == {<<GroupPlain, GroupAmp>>, <<GroupAmp, GroupPlain>>}

OldRefsOf(obj) ==
    LET refs == GlobalReferences(GetNameUuid(obj), obj.name)
    IN  {refs[k].old_ref : k \in 1..Len(refs)}

\* the four old forms of an object, one after the other
FourForms(obj) ==
    LET refs == GlobalReferences(GetNameUuid(obj), obj.name)
    IN  refs[1].old_ref \o <<" ">> \o refs[2].old_ref \o <<" ">>
        \o refs[3].old_ref \o <<" ">> \o refs[4].old_ref

\* what a content is made of: references as they are found in an export,
\* a separator and an identifier alone
Pieces ==
    OldRefsOf(PageA)
    \cup {GetNameUuid(PageB), HtmlEncodeSafe(GetNameUuid(PageC)), <<" ">>, UuidC}

RECURSIVE Concats(_)
Concats(n) ==
    IF n = 0 THEN {<<>>}
    ELSE Concats(n - 1) \cup {p \o c : p \in Pieces, c \in Concats(n - 1)}

PlainContents == Concats(MaxPieces) \ {<<>>}

NameUuidA == GetNameUuid(PageA)

\* a link to the export's origin between parentheses, with text around it
LinkedContents ==
    {pre \o <<"(">> \o before \o NOTION_LINK_MARKER \o <<"/">> \o u \o after \o <<")">> :
        pre \in {<<>>, <<"(", "x", ")", " ">>, EncodeUri(NameUuidA) \o <<" ">>},
        before \in {<<>>, NameUuidA \o <<" ">>},
        u \in {UuidA, UuidB},
        after \in {<<>>, <<" ">> \o NameUuidA, <<" ">> \o FourForms(PageC)}}

\* the four old forms of one object, with text around them
FourFormContents ==
    {pre \o FourForms(PageC) \o post :
        pre \in {<<>>, NameUuidA \o <<" ">>},
        post \in {<<>>, <<" ">>, <<" ">> \o UuidC}}

Contents == PlainContents \cup FourFormContents \cup LinkedContents

BinFile == [path |-> DirRoot \o <<<<"n", ".", "b", "i", "n">>>>, readable |-> FALSE]

TextFile(file_name) == [path |-> DirRoot \o <<file_name>>, readable |-> TRUE]

ObjectFile(obj) == [path |-> obj.path, readable |-> TRUE]

TextFileNames == {<<"n", ".", "t", "x", "t">>, IndexHtml}

InitRewrite ==
    /\ pc = "rewrite"
    /\ all_objects_by_name \in RewriteTables
    /\ invalid_key = <<>>
    /\ g = 1
    /\ paths_after_files_renamed = <<>>
    /\ new_paths_seen = {}
    /\ i = 1
    /\ desired_path = <<>>
    /\ add = 1
    /\ set_count = [u \in Uuids |-> 1]
    /\ IdleSplice
    /\ is_test \in BOOLEAN
    /\ \E file_name \in TextFileNames, contents \in Contents :
          /\ all_files = <<BinFile, ObjectFile(PageA), ObjectFile(PageB),
                           ObjectFile(PageC), TextFile(file_name)>>
          /\ disk = [p \in {all_files[k].path : k \in 1..Len(all_files)} |->
                        FileNode(p, IF p = TextFile(file_name).path THEN contents ELSE <<>>)]
                     @@ [p \in {DirRoot, DirSub} |-> DirNode(p)]
    /\ file_index = 1
    /\ warnings = <<>>
    /\ writes = <<>>
    /\ IdleRename
    /\ IdleConstruct

NextRewrite ==
    \/ RewriteSkip
    \/ RewritePrepare
    \/ RewriteUntouched
    \/ RewriteWrite
    \/ RewritePanic
    \/ RewriteReturn

SpecRewrite == InitRewrite /\ [][NextRewrite]_vars

(***************************************************************************)
(* rename_objects_files and rename_directories                             *)
(***************************************************************************)

\* NotionObject::has_dir
HasDir(obj) == IsPageOrDataset(obj) /\ IsSome(obj.dir_path)

\* NotionObject::get_dir
GetDir(obj) == obj.dir_path

\* the new path of get_old_and_new_paths
NewPath(obj) ==
    WithExtension(WithFileName(obj.path, Unwrap(obj.new_name)),
                  Unwrap(Extension(obj.path)))

\* the new path of get_old_and_new_csv_all_paths
NewCsvAllPath(obj) ==
    WithExtension(WithFileName(Unwrap(obj.csv_all_path),
                               Unwrap(obj.new_name) \o <<"_", "a", "l", "l">>),
                  Unwrap(Extension(Unwrap(obj.csv_all_path))))

\* the new path of get_old_and_new_html_paths
NewHtmlPath(obj) ==
    WithExtension(WithFileName(Unwrap(obj.html_path), Unwrap(obj.new_name)),
                  Unwrap(Extension(Unwrap(obj.html_path))))

\* the new path of get_old_and_new_dir_paths
NewDirPath(obj) == WithFileName(Unwrap(GetDir(obj)), Unwrap(obj.new_name))

\* insertion into a list sorted the other way, the deepest directory first
RECURSIVE InsertByDepthDeepestFirst(_, _)
InsertByDepthDeepestFirst(obj, sorted) ==
    IF sorted = <<>> THEN <<obj>>
    ELSE IF ComponentCount(Unwrap(GetDir(obj))) > ComponentCount(Unwrap(GetDir(Head(sorted))))
         THEN <<obj>> \o sorted
         ELSE <<Head(sorted)>> \o InsertByDepthDeepestFirst(obj, Tail(sorted))

\* insertion of one object into a list sorted by the depth of its
\* directory, after every equal depth
RECURSIVE InsertByDepth(_, _)
InsertByDepth(obj, sorted) ==
    IF sorted = <<>> THEN <<obj>>
    ELSE IF ComponentCount(Unwrap(GetDir(obj))) < ComponentCount(Unwrap(GetDir(Head(sorted))))
         THEN <<obj>> \o sorted
         ELSE <<Head(sorted)>> \o InsertByDepth(obj, Tail(sorted))

\* sort_by_key(components().count()): a stable sort
RECURSIVE SortByDepth(_)
SortByDepth(objs) ==
    IF objs = <<>> THEN <<>>
    ELSE InsertByDepth(objs[Len(objs)], SortByDepth(SubSeq(objs, 1, Len(objs) - 1)))

\* Vec::reverse
Reverse(seq) == [k \in 1..Len(seq) |-> seq[Len(seq) + 1 - k]]

\* the objects with a directory, sorted by depth and not reversed
SortedByDirPathLenLowestFirst(objs) == SortByDepth(SelectSeq(objs, HasDir))

\* all_objects_sorted_by_dir_path_len_highest_first
SortedByDirPathLenHighestFirst(objs) == Reverse(SortByDepth(SelectSeq(objs, HasDir)))

\* some file of all_files has been through the loop
SomeFileRewritten == file_index > 1

\* every file of all_files has been through the loop of rename_refs_in_all_files
AllFilesRewritten == file_index > Len(all_files)

CurrentObject == AllObjects[object_index]

CurrentDirObject == sorted_by_dir[dir_index]

\* a call fs::rename(old, new).unwrap(), then on to next_pc; a failure
\* panics. The entry of the log says whether old was, at the call, the
\* entry that the tree had at that path when it was read.
FsRename(pass, old, new, next_pc) ==
    /\ renames' = Append(renames,
                         [pass |-> pass, old |-> old, new |-> new,
                          ok |-> RenameSucceeds(disk, old, new),
                          own |-> old \in DOMAIN disk /\ disk[old].origin = old])
    /\ disk' = IF RenameSucceeds(disk, old, new) THEN Renamed(disk, old, new) ELSE disk
    /\ pc' = IF RenameSucceeds(disk, old, new) THEN next_pc ELSE "panic"

\* main goes on to rename_objects_files when rename_refs_in_all_files returns
MainRenameObjectsFiles ==
    /\ pc = "rewrite"
    /\ AllFilesRewritten
    /\ pc' = "rename_files"
    /\ object_index' = 1
    /\ UNCHANGED <<constructVars, resolveVars, spliceVars, rewriteVars, renames, sorted_by_dir, dir_index>>

\* an object that is_page_or_dataset filters out
RenameFilesSkip ==
    /\ pc = "rename_files"
    /\ object_index <= Len(AllObjects)
    /\ ~IsPageOrDataset(CurrentObject)
    /\ object_index' = object_index + 1
    /\ UNCHANGED <<pc, constructVars, resolveVars, spliceVars, rewriteVars, renames, sorted_by_dir, dir_index>>

\* the file of a Page or Database; an object without new name panics
RenamePrimary ==
    /\ pc = "rename_files"
    /\ object_index <= Len(AllObjects)
    /\ IsPageOrDataset(CurrentObject)
    /\ IF ~IsSome(CurrentObject.new_name)
       THEN pc' = "panic" /\ UNCHANGED <<renames, disk>>
       ELSE IF is_test
            THEN pc' = "rename_csv_all" /\ UNCHANGED <<renames, disk>>
            ELSE FsRename("file", CurrentObject.path, NewPath(CurrentObject),
                          "rename_csv_all")
    /\ UNCHANGED <<constructVars, resolveVars, spliceVars, is_test, all_files, file_index, warnings,
                   writes, object_index, sorted_by_dir, dir_index>>

\* the csv_all of a Database that has one
RenameCsvAll ==
    /\ pc = "rename_csv_all"
    /\ IF IsSome(CurrentObject.csv_all_path) /\ ~is_test
       THEN FsRename("file", Unwrap(CurrentObject.csv_all_path),
                     NewCsvAllPath(CurrentObject), "rename_html")
       ELSE pc' = "rename_html" /\ UNCHANGED <<renames, disk>>
    /\ UNCHANGED <<constructVars, resolveVars, spliceVars, is_test, all_files, file_index, warnings,
                   writes, object_index, sorted_by_dir, dir_index>>

\* the html of a Database that has one, and on to the next object
RenameHtml ==
    /\ pc = "rename_html"
    /\ IF IsSome(CurrentObject.html_path) /\ ~is_test
       THEN FsRename("file", Unwrap(CurrentObject.html_path),
                     NewHtmlPath(CurrentObject), "rename_files")
       ELSE pc' = "rename_files" /\ UNCHANGED <<renames, disk>>
    /\ object_index' = object_index + 1
    /\ UNCHANGED <<constructVars, resolveVars, spliceVars, is_test, all_files, file_index, warnings,
                   writes, sorted_by_dir, dir_index>>

\* main goes on to rename_directories when rename_objects_files returns:
\* the objects with a directory are sorted, the deepest first
MainRenameDirectories ==
    /\ pc = "rename_files"
    /\ object_index > Len(AllObjects)
    /\ sorted_by_dir' = SortedByDirPathLenHighestFirst(AllObjects)
    /\ dir_index' = 1
    /\ pc' = "rename_dirs"
    /\ UNCHANGED <<constructVars, resolveVars, spliceVars, rewriteVars, renames, object_index>>

\* the directory of one object
RenameDir ==
    /\ pc = "rename_dirs"
    /\ dir_index <= Len(sorted_by_dir)
    /\ IF ~IsSome(CurrentDirObject.new_name)
       THEN pc' = "panic" /\ UNCHANGED <<renames, disk>>
       ELSE IF is_test
            THEN UNCHANGED <<pc, renames, disk>>
            ELSE FsRename("dir", Unwrap(GetDir(CurrentDirObject)),
                          NewDirPath(CurrentDirObject), "rename_dirs")
    /\ dir_index' = dir_index + 1
    /\ UNCHANGED <<constructVars, resolveVars, spliceVars, is_test, all_files, file_index, warnings,
                   writes, object_index, sorted_by_dir>>

\* rename_directories returns, and main with it
RenameDirectoriesReturn ==
    /\ pc = "rename_dirs"
    /\ dir_index > Len(sorted_by_dir)
    /\ pc' = "done"
    /\ UNCHANGED <<constructVars, resolveVars, spliceVars, rewriteVars, renameVars>>

-----------------------------------------------------------------------------
(* The references of a file: C7 *)

\* the j-th form of a name: as written, percent-encoded, markup-escaped,
\* escaped then percent-encoded
Form(j, text) ==
    CASE j = 1 -> text
      [] j = 2 -> EncodeUri(text)
      [] j = 3 -> HtmlEncodeSafe(text)
      [] j = 4 -> EncodeUri(HtmlEncodeSafe(text))

\* the objects that have a resolved name
Named == {k \in 1..Len(AllObjects) :
            IsPageOrDataset(AllObjects[k]) /\ IsSome(AllObjects[k].new_name)}

OldForm(k, j) == Form(j, GetNameUuid(AllObjects[k]))

NewForm(k, j) == Form(j, Unwrap(AllObjects[k].new_name))

\* the starts of the occurrences of a form in a text
OccurrencesIn(text, form) ==
    LET starts == MatchIndices(text, form)
    IN  {starts[n] : n \in 1..Len(starts)}

\* the content that was read holds each of the four old forms of object k
HoldsFourForms(k) == \A j \in 1..4 : OccurrencesIn(file_contents, OldForm(k, j)) # {}

\* where the byte at offset pos of the content read is in the new content:
\* every applied descriptor that ends at or before it moves it
RECURSIVE MovedBy(_, _, _)
MovedBy(ds, n, pos) ==
    IF n > Len(ds) THEN pos
    ELSE MovedBy(ds, n + 1, pos)
         + (IF ds[n].end <= pos
            THEN Len(ds[n].new_text) - (ds[n].end - ds[n].start)
            ELSE 0)

NewOffset(pos) == MovedBy(descriptors, 1, pos)

\* the new content holds the j-th new form of object k where the content
\* read held the old form at offset pos
HoldsNewForm(k, j, pos) == OccursAt(result.text, NewForm(k, j), NewOffset(pos))

\* another descriptor of the file starts at or before offset pos and ends after it
StartsInsideAnother(k, j, pos) ==
    \E n \in 1..Len(all_descriptors) :
        /\ all_descriptors[n].start <= pos
        /\ pos < all_descriptors[n].end
        /\ all_descriptors[n] #
               ReplaceDescriptor(pos, pos + Len(OldForm(k, j)), NewForm(k, j))

\* the text at offset q of the new content, len bytes long, has a byte of
\* a replacement that was written
TouchesReplacement(q, len) ==
    \E n \in 1..Len(descriptors) :
        /\ q < NewOffset(descriptors[n].start) + Len(descriptors[n].new_text)
        /\ NewOffset(descriptors[n].start) < q + len

\* C7: when the content of a file holds the four old forms of an entity and
\* a new content is returned, the new content holds none of the old forms
\* and, at each occurrence, the new form paired with the form found there.
\* Left out of the statement: an occurrence that starts inside the range of
\* another descriptor of the file, and an old form that a replacement puts
\* together with the text that follows it.
C7_OldFormsReplaced ==
    (pc = "new_content" /\ result.kind = "some") =>
        \A k \in Named :
            HoldsFourForms(k) =>
                \A j \in 1..4 :
                    /\ \A pos \in OccurrencesIn(file_contents, OldForm(k, j)) :
                          HoldsNewForm(k, j, pos) \/ StartsInsideAnother(k, j, pos)
                    /\ \A q \in OccurrencesIn(result.text, OldForm(k, j)) :
                          TouchesReplacement(q, Len(OldForm(k, j)))

(***************************************************************************)
(* The run of main on a tree: rewrite, file pass, directory pass           *)
(***************************************************************************)

NameQ == <<"Q">>
NameD == <<"D">>

\* a chain: each object lies in the directory of the one before
ChainA == PageObject(DirRoot, NamePlain, UuidA, ExtMd, TRUE)
ChainB == PageObject(Unwrap(ChainA.dir_path), NameQ, UuidB, ExtMd, TRUE)
ChainC == DatabaseObject(Unwrap(ChainB.dir_path), NameD, UuidC, TRUE, TRUE, TRUE)

\* two directories side by side, and one below the second
SideB == PageObject(DirRoot, NameQ, UuidB, ExtHtml, TRUE)
SideC == DatabaseObject(Unwrap(SideB.dir_path), NameD, UuidC, TRUE, TRUE, FALSE)

\* a Page and a Database of one name side by side, each with a directory
\* that is not empty
ClashB == DatabaseObject(DirRoot, NamePlain, UuidB, TRUE, FALSE, FALSE)
ClashC == PageObject(Unwrap(ChainA.dir_path), NameQ, UuidC, ExtMd, FALSE)
ClashBin == OtherObject("OtherBinary", Unwrap(ClashB.dir_path), <<"n">>, ExtBin)

GroupOf(name, objs) == [name |-> name, objects |-> objs]

\* a tree: its objects, the orders the map of groups can be iterated in,
\* and the files that belong to no object
ChainTree ==
    [objects |-> <<ChainA, ChainB, ChainC>>,
     tables |-> Orders(<<GroupOf(NamePlain, <<ChainA>>), GroupOf(NameQ, <<ChainB>>),
                         GroupOf(NameD, <<ChainC>>)>>),
     others |-> <<>>]

SideTree ==
    [objects |-> <<ChainA, SideB, SideC>>,
     tables |-> Orders(<<GroupOf(NamePlain, <<ChainA>>), GroupOf(NameQ, <<SideB>>),
                         GroupOf(NameD, <<SideC>>)>>),
     others |-> <<>>]

ClashTree ==
    [objects |-> <<ChainA, ClashB, ClashC>>,
     tables |-> UNION {Orders(<<GroupOf(NamePlain, objs), GroupOf(NameQ, <<ClashC>>),
                                 GroupOf(<<"n">>, <<ClashBin>>)>>) :
                          objs \in Orders(<<ChainA, ClashB>>)},
     others |-> <<[path |-> ClashBin.path, readable |-> FALSE]>>]

\* an html export: a Page and a Database of one name side by side, the
\* Page in "P a1.html", the Database in "P b2.csv" with "P b2_all.csv" and
\* "P b2.html"
TwinPage == PageObject(DirRoot, NamePlain, UuidA, ExtHtml, FALSE)
TwinDatabase == DatabaseObject(DirRoot, NamePlain, UuidB, FALSE, TRUE, TRUE)
TwinOther == PageObject(DirRoot, NameQ, UuidC, ExtMd, FALSE)

TwinTree ==
    [objects |-> <<TwinPage, TwinDatabase, TwinOther>>,
     tables |-> UNION {Orders(<<GroupOf(NamePlain, objs), GroupOf(NameQ, <<TwinOther>>)>>) :
                          objs \in Orders(<<TwinPage, TwinDatabase>>)},
     others |-> <<>>]

\* a Database whose display name contains a '.', with its companions
DottedDatabase == DatabaseObject(DirRoot, NameDotted, UuidA, FALSE, TRUE, TRUE)
DottedB == PageObject(DirRoot, NameQ, UuidB, ExtMd, FALSE)
DottedC == PageObject(DirRoot, NameD, UuidC, ExtHtml, FALSE)

DottedTree ==
    [objects |-> <<DottedDatabase, DottedB, DottedC>>,
     tables |-> Orders(<<GroupOf(NameDotted, <<DottedDatabase>>), GroupOf(NameQ, <<DottedB>>),
                         GroupOf(NameD, <<DottedC>>)>>),
     others |-> <<>>]

Trees == {ChainTree, SideTree, ClashTree, TwinTree, DottedTree}

\* the map once resolve_new_names has returned
RECURSIVE Resolved(_)
Resolved(groups) ==
    IF groups = <<>> THEN <<>>
    ELSE <<GroupOf(Head(groups).name, ResolveGroup(Head(groups).objects, Head(groups).name))>>
         \o Resolved(Tail(groups))

OptionalEntry(path, readable) ==
    IF IsSome(path) THEN <<[path |-> Unwrap(path), readable |-> readable]>> ELSE <<>>

\* the entries of the tree that belong to one object
EntriesOf(obj) ==
    <<ObjectFile(obj)>> \o OptionalEntry(obj.csv_all_path, TRUE)
    \o OptionalEntry(obj.html_path, TRUE) \o OptionalEntry(obj.dir_path, FALSE)

RECURSIVE EntriesOfAll(_)
EntriesOfAll(objs) ==
    IF objs = <<>> THEN <<>> ELSE EntriesOf(Head(objs)) \o EntriesOfAll(Tail(objs))

\* the directories of a tree
DirsOf(tree) ==
    {DirRoot} \cup {Unwrap(tree.objects[k].dir_path) :
                       k \in {j \in 1..Len(tree.objects) : HasDir(tree.objects[j])}}

\* what the file of the first object can hold: nothing, a reference to
\* the second object, a link to the third, a reference to the second and
\* the identifier of the third alone
ContentsOf(tree) ==
    {<<>>,
     GetNameUuid(tree.objects[2]),
     <<"(">> \o NOTION_LINK_MARKER \o <<"/">> \o tree.objects[3].uuid \o <<")">>,
     GetNameUuid(tree.objects[2]) \o <<" ">> \o tree.objects[3].uuid}

InitPipeline ==
    /\ pc = "rewrite"
    /\ \E tree \in Trees, contents \in UNION {ContentsOf(t) : t \in Trees} :
          /\ contents \in ContentsOf(tree)
          /\ all_objects_by_name \in {Resolved(table) : table \in tree.tables}
          /\ all_files = EntriesOfAll(tree.objects) \o tree.others
          /\ disk = [p \in {all_files[k].path : k \in 1..Len(all_files)} \cup DirsOf(tree) |->
                        IF p \in DirsOf(tree) THEN DirNode(p)
                        ELSE FileNode(p, IF p = tree.objects[1].path THEN contents
                                         ELSE <<>>)]
    /\ invalid_key = <<>>
    /\ g = 1
    /\ paths_after_files_renamed = <<>>
    /\ new_paths_seen = {}
    /\ i = 1
    /\ desired_path = <<>>
    /\ add = 1
    /\ set_count = [u \in Uuids |-> 1]
    /\ IdleSplice
    /\ is_test \in BOOLEAN
    /\ file_index = 1
    /\ warnings = <<>>
    /\ writes = <<>>
    /\ IdleRename
    /\ IdleConstruct

NextPipeline ==
    \/ RewriteSkip
    \/ RewritePrepare
    \/ RewriteUntouched
    \/ RewriteWrite
    \/ MainRenameObjectsFiles
    \/ RenameFilesSkip
    \/ RenamePrimary
    \/ RenameCsvAll
    \/ RenameHtml
    \/ MainRenameDirectories
    \/ RenameDir
    \/ RenameDirectoriesReturn

SpecPipeline == InitPipeline /\ [][NextPipeline]_vars

-----------------------------------------------------------------------------
(* The order of the renames: C8 .. C10 *)

\* the calls of fs::rename of one pass, by their place in the log
RenamesOf(pass) == {n \in 1..Len(renames) : renames[n].pass = pass}

\* p is an ancestor of q
IsAncestor(p, q) == p # q /\ IsPrefix(p, q)

\* the directories the objects own
OwnedDirs == {Unwrap(GetDir(AllObjects[k])) : k \in {j \in 1..Len(AllObjects) : HasDir(AllObjects[j])}}

\* C8: in the directory pass, when D1 and D2 are owned directories and D1 is
\* an ancestor of D2, the rename of D2 is issued before the rename of D1:
\* when the rename of D1 is issued, that of D2 is in the log already.
C8_DescendantRenamedFirst ==
    \A m \in RenamesOf("dir") :
        \A d \in OwnedDirs :
            IsAncestor(renames[m].old, d) =>
                \E n \in RenamesOf("dir") : n < m /\ renames[n].old = d

\* the directory pass is over and has renamed three directories, each
\* below the one renamed after it
C8_Witness ==
    /\ pc = "done"
    /\ \E l, m, n \in RenamesOf("dir") :
          /\ l < m /\ m < n
          /\ IsAncestor(renames[m].old, renames[l].old)
          /\ IsAncestor(renames[n].old, renames[m].old)
          /\ renames[l].ok /\ renames[m].ok /\ renames[n].ok

FilePassSources(obj) ==
    {obj.path}
    \cup (IF IsSome(obj.csv_all_path) THEN {Unwrap(obj.csv_all_path)} ELSE {})
    \cup (IF IsSome(obj.html_path) THEN {Unwrap(obj.html_path)} ELSE {})

\* the readable files of all_files that have been through the rewrite
Rewritten == {k \in 1..Len(all_files) : IsReadableType(all_files[k]) /\ k < file_index}

Readable == {k \in 1..Len(all_files) : IsReadableType(all_files[k])}

\* C10: no rename is issued before the content of every readable file has
\* been rewritten, and no directory rename before every rename of the file
\* pass has been issued.
C10_StrictlyStaged ==
    /\ renames # <<>> => (Rewritten = Readable /\ pc \notin {"rewrite", "new_content"})
    /\ \A n \in RenamesOf("dir") :
          \A k \in 1..Len(AllObjects) :
              IsPageOrDataset(AllObjects[k]) =>
                  \A src \in FilePassSources(AllObjects[k]) :
                      \E m \in RenamesOf("file") : m < n /\ renames[m].old = src

\* a run that wrote a file, then renamed files, then directories
C10_Witness ==
    /\ pc = "done"
    /\ writes # <<>>
    /\ RenamesOf("file") # {}
    /\ RenamesOf("dir") # {}
    /\ \A m \in RenamesOf("file"), n \in RenamesOf("dir") : m < n

-----------------------------------------------------------------------------
(* The file pass: C11 *)

\* the calls of fs::rename that rename_objects_files makes for one object:
\* the file, the csv_all, the html
RenamesOfObject(obj) ==
    IF ~IsPageOrDataset(obj) THEN <<>>
    ELSE <<[old |-> obj.path, new |-> NewPath(obj)]>>
         \o (IF IsSome(obj.csv_all_path)
             THEN <<[old |-> Unwrap(obj.csv_all_path), new |-> NewCsvAllPath(obj)]>>
             ELSE <<>>)
         \o (IF IsSome(obj.html_path)
             THEN <<[old |-> Unwrap(obj.html_path), new |-> NewHtmlPath(obj)]>>
             ELSE <<>>)

RECURSIVE RenamesOfObjects(_)
RenamesOfObjects(objs) ==
    IF objs = <<>> THEN <<>>
    ELSE RenamesOfObject(Head(objs)) \o RenamesOfObjects(Tail(objs))

\* the file system after a list of calls, each unwrapped: the first call
\* that fails ends the run
RECURSIVE AfterRenames(_, _)
AfterRenames(fs, calls) ==
    IF calls = <<>> THEN [disk |-> fs, panicked |-> FALSE]
    ELSE IF ~RenameSucceeds(fs, Head(calls).old, Head(calls).new)
         THEN [disk |-> fs, panicked |-> TRUE]
         ELSE AfterRenames(Renamed(fs, Head(calls).old, Head(calls).new), Tail(calls))

\* rename_objects_files(all_objects, false) as a function of the list
AfterFilePass(fs, objs) == AfterRenames(fs, RenamesOfObjects(objs))

\* the source and target paths of the calls of the file pass so far
FilePassPaths(n) == {renames[n].old, renames[n].new}

\* C11: the sources and targets of the renames of the file pass are pairwise
\* distinct, and the tree after the file pass is the same for every order of
\* the objects.
C11_DisjointLeafPaths ==
    /\ \A m, n \in RenamesOf("file") :
          /\ renames[m].old # renames[m].new
          /\ m # n => FilePassPaths(m) \cap FilePassPaths(n) = {}
    /\ (pc = "rename_files" /\ object_index = 1 /\ ~is_test) =>
          \A objs \in Orders(AllObjects) :
              AfterFilePass(disk, objs) = AfterFilePass(disk, AllObjects)

-----------------------------------------------------------------------------
(* The targets of the file pass: C12 *)

\* the file named stem, '.', the extension of path old, in the directory of old
Beside(old, stem) == Parent(old) \o <<stem \o <<".">> \o Unwrap(Extension(old))>>

\* the target the log has for the rename of source old, when there is one
TargetsOf(old) == {renames[n].new : n \in {m \in RenamesOf("file") : renames[m].old = old}}

\* the file pass is over
FilePassOver == pc \in {"rename_dirs", "done"}

\* C12: the file pass renames the file of every Page and Database to its
\* resolved name, '.', its extension, in its directory; the csv_all of a
\* Database to the resolved name, "_all", '.', its extension; its html to the
\* resolved name, '.', its extension. When the pass is over each has been
\* renamed.
C12_ExactTargets ==
    \A k \in 1..Len(AllObjects) :
        LET obj == AllObjects[k]
            nm == Unwrap(obj.new_name)
        IN  IsPageOrDataset(obj) =>
              /\ TargetsOf(obj.path) \subseteq {Beside(obj.path, nm)}
              /\ (FilePassOver /\ ~is_test) => TargetsOf(obj.path) # {}
              /\ IsSome(obj.csv_all_path) =>
                    /\ TargetsOf(Unwrap(obj.csv_all_path)) \subseteq
                           {Beside(Unwrap(obj.csv_all_path), nm \o <<"_", "a", "l", "l">>)}
                    /\ (FilePassOver /\ ~is_test) => TargetsOf(Unwrap(obj.csv_all_path)) # {}
              /\ IsSome(obj.html_path) =>
                    /\ TargetsOf(Unwrap(obj.html_path)) \subseteq
                           {Beside(Unwrap(obj.html_path), nm)}
                    /\ (FilePassOver /\ ~is_test) => TargetsOf(Unwrap(obj.html_path)) # {}

-----------------------------------------------------------------------------
(* The run as a function of the tree, for comparing a dry run and a live   *)
(* run: C13                                                                 *)

\* rename_refs_in_all_files from the k-th file on: the file system and the
\* warnings when it returns
RECURSIVE RewriteFrom(_, _, _, _)
RewriteFrom(fs, k, test, warned) ==
    IF k > Len(all_files) THEN [disk |-> fs, warnings |-> warned]
    ELSE IF ~IsReadableType(all_files[k]) THEN RewriteFrom(fs, k + 1, test, warned)
    ELSE LET path == all_files[k].path
             old_contents == fs[path].contents
             new_content ==
                 DoRenameRefsInContent(old_contents,
                     PrepareRenameRefsInContent(old_contents, path, AllObjects))
         IN  IF new_content.kind # "some" THEN RewriteFrom(fs, k + 1, test, warned)
             ELSE RewriteFrom(
                      IF test THEN fs ELSE [fs EXCEPT ![path].contents = new_content.text],
                      k + 1, test,
                      warned \o WarningsOf(path,
                                    ValidateRenameRefsInContent(new_content.text, AllObjects, 1)))

\* the calls of fs::rename of rename_directories
RenamesOfDirectories(objs) ==
    LET sorted == SortedByDirPathLenHighestFirst(objs)
    IN  [k \in 1..Len(sorted) |->
            [old |-> Unwrap(GetDir(sorted[k])), new |-> NewDirPath(sorted[k])]]

\* the three stages on the file system fs: what is on disk at the end, the
\* warnings, and whether a rename has panicked
RunOf(fs, test) ==
    LET rewritten == RewriteFrom(fs, 1, test, <<>>)
        calls == IF test THEN <<>>
                 ELSE RenamesOfObjects(AllObjects) \o RenamesOfDirectories(AllObjects)
        after == AfterRenames(rewritten.disk, calls)
    IN  [disk |-> after.disk, warnings |-> rewritten.warnings, panicked |-> after.panicked]

\* the run is over
RunOver == pc \in {"done", "panic"}

\* C13: a run with is_test set writes no file and renames nothing, each file
\* keeps its bytes and each entry its path, and when it is over it has
\* reported what a live run on the same tree reports: the same warnings, and
\* a fatal error exactly when the live run has one.
C13_DryRunSameReports ==
    /\ [](is_test =>
            /\ writes = <<>>
            /\ renames = <<>>
            /\ \A p \in DOMAIN disk : disk[p].origin = p
            /\ RunOver =>
                  /\ warnings = RunOf(disk, FALSE).warnings
                  /\ (pc = "panic") = RunOf(disk, FALSE).panicked)
    /\ [][is_test => disk' = disk]_vars

-----------------------------------------------------------------------------
(* The warnings of a file: C14, C15 *)

\* the last file of all_files has been through the loop of
\* rename_refs_in_all_files, and it is a readable file
LastFileDone == file_index > Len(all_files) /\ IsReadableType(all_files[Len(all_files)])

LastPath == all_files[Len(all_files)].path

\* the content of the last file once it has been through the loop: the new
\* content when there is one, what was read otherwise
ResultingContent == IF result.kind = "some" THEN result.text ELSE file_contents

\* the warnings about the last file that name the uuid
WarningsAbout(uuid) ==
    {n \in 1..Len(warnings) : warnings[n].path = LastPath /\ warnings[n].uuid = uuid}

\* the Page and Database objects whose uuid is in the resulting content
Remaining == {k \in 1..Len(AllObjects) :
                /\ IsPageOrDataset(AllObjects[k])
                /\ Contains(ResultingContent, AllObjects[k].uuid)}

\* C14: when the uuid of a Page or Database is in the resulting content of a
\* file, there is no warning about it if the file is index.html, and exactly
\* one warning that names the object if it is another file.
C14_OneWarningUnlessIndex ==
    (LastFileDone /\ result.kind \in {"none", "some"}) =>
        \A k \in Remaining :
            Cardinality(WarningsAbout(AllObjects[k].uuid))
                = IF EndsWithIndexHtml(LastPath) THEN 0 ELSE 1

\* C15: a file other than index.html that holds the uuid of a Page or
\* Database and for which no descriptor is found has a warning all the same.
C15_ValidatedWithoutRewrite ==
    (LastFileDone /\ result.kind = "none" /\ ~EndsWithIndexHtml(LastPath)) =>
        \A k \in Remaining : WarningsAbout(AllObjects[k].uuid) # {}

(***************************************************************************)
(* Classification of the entries and objects_from_map                      *)
(***************************************************************************)

\* contents that fs::read_to_string refuses with InvalidData
InvalidData == <<"0xFF">>

AllSuffix == <<"_", "a", "l", "l">>

\* str::ends_with
EndsWith(text, suffix) ==
    Len(suffix) <= Len(text)
    /\ SubSeq(text, Len(text) - Len(suffix) + 1, Len(text)) = suffix

\* the tags that is_readable_type accepts
ReadableTags == {"Markdown", "Html", "Csv", "CsvAll", "OtherTxt"}

FileTypeOf(tag, path, name_uuid) ==
    [tag |-> tag, path |-> path, name_uuid |-> name_uuid, readable |-> tag \in ReadableTags]

\* FileType::from(path), for the entry that the file system has at path
FileTypeFrom(fs, path) ==
    LET name_uuid == FileStem(path)
        extension == Unwrap(Extension(path))
    IN  IF fs[path].kind = "dir" THEN FileTypeOf("Dir", path, name_uuid)
        ELSE IF extension = ExtMd THEN FileTypeOf("Markdown", path, name_uuid)
        ELSE IF extension = ExtHtml THEN FileTypeOf("Html", path, name_uuid)
        ELSE IF extension = ExtCsv
             THEN IF EndsWith(name_uuid, AllSuffix)
                  THEN FileTypeOf("CsvAll", path,
                                  SubSeq(name_uuid, 1, Len(name_uuid) - Len(AllSuffix)))
                  ELSE FileTypeOf("Csv", path, name_uuid)
        ELSE IF fs[path].contents = InvalidData THEN FileTypeOf("OtherBin", path, <<>>)
        ELSE FileTypeOf("OtherTxt", path, <<>>)

\* FileType::get_file_key
GetFileKey(file_type) ==
    IF file_type.tag \in {"OtherTxt", "OtherBin"} THEN FileStem(file_type.path)
    ELSE file_type.name_uuid

\* the entries grouped by file key, the keys in the order they are met
RECURSIVE GroupByKey(_, _)
GroupByKey(file_types, map) ==
    IF file_types = <<>> THEN map
    ELSE LET key == GetFileKey(Head(file_types))
             at == {k \in 1..Len(map) : map[k].key = key}
         IN  GroupByKey(Tail(file_types),
                 IF at = {} THEN Append(map, [key |-> key, file_types |-> <<Head(file_types)>>])
                 ELSE [k \in 1..Len(map) |->
                          IF k \in at
                          THEN [map[k] EXCEPT !.file_types = Append(@, Head(file_types))]
                          ELSE map[k]])

INDEX_KEY == <<"i", "n", "d", "e", "x">>

\* the path of the last entry of a key that has the tag
LastOfTag(file_types, tag) ==
    LET at == {k \in 1..Len(file_types) : file_types[k].tag = tag}
    IN  IF at = {} THEN None
        ELSE Some(file_types[CHOOSE k \in at : \A j \in at : j <= k].path)

\* str::rfind(' '): the offset of the last space
RFindSpace(key) ==
    LET at == {k \in 1..Len(key) : key[k] = " "}
    IN  IF at = {} THEN None ELSE Some((CHOOSE k \in at : \A j \in at : j <= k) - 1)

\* the name and the uuid of a key, cut at offset 0 when the key has no space
SplitKeyOrZero(key) ==
    LET last_space_index == UnwrapOrDefault(IF IsSome(RFindSpace(key))
                                            THEN RFindSpace(key) ELSE Some(0))
    IN  Some([name |-> SubSeq(key, 1, last_space_index),
              uuid |-> SubSeq(key, last_space_index + 2, Len(key))])

\* the name and the uuid of a key, cut at its last space; None stands for
\* the panic "No space in file name"
SplitKey(key) ==
    IF ~IsSome(RFindSpace(key)) THEN None
    ELSE LET last_space_index == Unwrap(RFindSpace(key))
         IN  Some([name |-> SubSeq(key, 1, last_space_index),
                   uuid |-> SubSeq(key, last_space_index + 2, Len(key))])

\* NotionObject::OtherText { path }, NotionObject::OtherBinary { path }
OtherOf(file_type) ==
    [kind |-> IF file_type.tag = "OtherTxt" THEN "OtherText" ELSE "OtherBinary",
     path |-> file_type.path,
     name |-> <<>>, uuid |-> <<>>, dir_path |-> None,
     new_name |-> None, replacable_refs |-> None,
     csv_all_path |-> None, html_path |-> None]

\* NotionObject::Page and NotionObject::Database
ObjectOf(kind, path, split, dir_path, csv_all_path, html_path) ==
    [kind |-> kind, path |-> path, name |-> split.name, uuid |-> split.uuid,
     dir_path |-> dir_path, new_name |-> None, replacable_refs |-> None,
     csv_all_path |-> csv_all_path, html_path |-> html_path]

\* the first arms of the match with a markdown file and a csv beside it
\* taken for a Page too
IsPageIgnoringCsv(md_path, html_path, csv_path, csv_all_path) ==
    /\ IsSome(md_path) # IsSome(html_path)
    /\ ~IsSome(csv_all_path)

\* the first arms of the match: a markdown file or an html file, alone
IsPage(md_path, html_path, csv_path, csv_all_path) ==
    /\ IsSome(md_path) # IsSome(html_path)
    /\ ~IsSome(csv_path)
    /\ ~IsSome(csv_all_path)

\* objects_from_map, the body of the loop for one key: the objects it
\* pushes, or a panic
ObjectsOfKey(key, file_types) ==
    LET md_path == LastOfTag(file_types, "Markdown")
        html_path == LastOfTag(file_types, "Html")
        csv_path == LastOfTag(file_types, "Csv")
        csv_all_path == LastOfTag(file_types, "CsvAll")
        dir_path == LastOfTag(file_types, "Dir")
        non_standard == SelectSeq(file_types, LAMBDA ft : ft.tag \in {"OtherTxt", "OtherBin"})
        others == [k \in 1..Len(non_standard) |-> OtherOf(non_standard[k])]
        Panic == [panic |-> TRUE, objects |-> <<>>]
        Push(objs) == [panic |-> FALSE, objects |-> others \o objs]
    IN  IF key = INDEX_KEY
        THEN IF Len(file_types) = 1 /\ IsSome(html_path)
             THEN Push(<<OtherOf(FileTypeOf("OtherTxt", Unwrap(html_path), <<>>))>>)
             ELSE Panic
        ELSE IF non_standard # <<>>
        THEN IF \E o \in {md_path, html_path, csv_path, csv_all_path, dir_path} : IsSome(o)
             THEN Panic
             ELSE Push(<<>>)
        ELSE IF IsPage(md_path, html_path, csv_path, csv_all_path)
        THEN IF ~IsSome(SplitKey(key)) THEN Panic
             ELSE Push(<<ObjectOf("Page",
                                  Unwrap(IF IsSome(md_path) THEN md_path ELSE html_path),
                                  Unwrap(SplitKey(key)), dir_path, None, None)>>)
        ELSE IF ~IsSome(md_path) /\ IsSome(csv_path)
        THEN IF ~IsSome(SplitKey(key)) THEN Panic
             ELSE Push(<<ObjectOf("Database", Unwrap(csv_path), Unwrap(SplitKey(key)),
                                  dir_path, csv_all_path, html_path)>>)
        ELSE IF (\A o \in {md_path, html_path, csv_path, csv_all_path} : ~IsSome(o))
                /\ IsSome(dir_path)
        THEN Push(<<>>)
        ELSE Panic

\* build_map_by_name, the groups in the order their names are met
RECURSIVE BuildMapByName(_, _)
BuildMapByName(objs, map) ==
    IF objs = <<>> THEN map
    ELSE LET name == GetName(Head(objs))
             at == {k \in 1..Len(map) : map[k].name = name}
         IN  BuildMapByName(Tail(objs),
                 IF at = {} THEN Append(map, GroupOf(name, <<Head(objs)>>))
                 ELSE [k \in 1..Len(map) |->
                          IF k \in at
                          THEN [map[k] EXCEPT !.objects = Append(@, Head(objs))]
                          ELSE map[k]])

CurrentKey == files_by_key[key_index]

\* one key of the map: its objects are pushed
ConstructKey ==
    /\ pc = "construct"
    /\ key_index <= Len(files_by_key)
    /\ ~ObjectsOfKey(CurrentKey.key, CurrentKey.file_types).panic
    /\ notion_objects' = notion_objects
                         \o ObjectsOfKey(CurrentKey.key, CurrentKey.file_types).objects
    /\ key_index' = key_index + 1
    /\ UNCHANGED <<pc, files_by_key, resolveVars, spliceVars, rewriteVars, renameVars>>

\* one key of the map: a panic or an assertion that fails
ConstructPanic ==
    /\ pc = "construct"
    /\ key_index <= Len(files_by_key)
    /\ ObjectsOfKey(CurrentKey.key, CurrentKey.file_types).panic
    /\ pc' = "panic"
    /\ UNCHANGED <<constructVars, resolveVars, spliceVars, rewriteVars, renameVars>>

\* objects_from_map has returned: the objects are grouped by name, the names
\* resolved, and the rewrite begins
MainResolveNewNames ==
    /\ pc = "construct"
    /\ key_index > Len(files_by_key)
    /\ all_objects_by_name' = Resolved(BuildMapByName(notion_objects, <<>>))
    /\ pc' = "rewrite"
    /\ UNCHANGED <<constructVars, invalid_key, g, paths_after_files_renamed, new_paths_seen,
                   i, desired_path, add, set_count, spliceVars, rewriteVars, renameVars>>

(***************************************************************************)
(* The run of main from the classified entries on                          *)
(***************************************************************************)

EntryFile(dir, file_name, contents) == [path |-> dir \o <<file_name>>, node |-> "file", contents |-> contents]

EntryDir(dir, dir_name) == [path |-> dir \o <<dir_name>>, node |-> "dir", contents |-> <<>>]

\* "P a1", "Q b2", "D c3" and the same without the space
KeyA == NameUuid(NamePlain, UuidA)
KeyB == NameUuid(NameQ, UuidB)
KeyC == NameUuid(NameD, UuidC)
KeyNoSpace == NameQ \o UuidB

DirA == DirRoot \o <<KeyA>>

\* a Page with its directory, a Database in it, and a text file that holds
\* a reference to the Page and the identifier of the Database
BaseEntries ==
    <<EntryFile(DirRoot, KeyA \o <<".">> \o ExtMd, <<>>),
      EntryDir(DirRoot, KeyA),
      EntryFile(DirA, KeyC \o <<".">> \o ExtCsv, <<>>),
      EntryFile(DirRoot, <<"n", ".">> \o ExtTxt, KeyA \o <<" ">> \o UuidC)>>

\* what a tree has besides
ExtraEntries ==
    {<<>>,
     <<EntryFile(DirRoot, KeyNoSpace \o <<".">> \o ExtMd, <<>>)>>,
     <<EntryFile(DirRoot, KeyNoSpace \o <<".">> \o ExtHtml, <<>>)>>,
     <<EntryFile(DirRoot, KeyNoSpace \o <<".">> \o ExtCsv, <<>>)>>,
     <<EntryFile(DirRoot, KeyNoSpace \o AllSuffix \o <<".">> \o ExtCsv, <<>>)>>,
     <<EntryDir(DirRoot, KeyNoSpace)>>,
     <<EntryDir(DirRoot, KeyNoSpace), EntryFile(DirRoot, KeyNoSpace \o <<".">> \o ExtMd, <<>>)>>,
     <<EntryFile(DirRoot, IndexHtml, UuidA)>>,
     <<EntryFile(DirRoot, KeyA \o <<".">> \o ExtHtml, <<>>)>>,
     <<EntryFile(DirRoot, KeyA \o <<".">> \o ExtCsv, <<>>)>>,
     <<EntryFile(DirRoot, KeyB \o AllSuffix \o <<".">> \o ExtCsv, <<>>)>>,
     <<EntryFile(DirRoot, KeyB \o AllSuffix \o <<".">> \o ExtCsv, <<>>), EntryDir(DirRoot, KeyB)>>,
     <<EntryFile(DirA, KeyC \o AllSuffix \o <<".">> \o ExtCsv, <<>>),
       EntryFile(DirA, KeyC \o <<".">> \o ExtHtml, <<>>)>>,
     <<EntryFile(DirRoot, <<"b", ".">> \o ExtBin, InvalidData)>>,
     <<EntryFile(DirRoot, KeyB \o <<".">> \o ExtMd, <<>>),
       EntryFile(DirA, KeyB \o <<".">> \o ExtMd, <<>>)>>,
     <<EntryFile(DirRoot, KeyB \o <<".">> \o ExtMd, <<>>),
       EntryFile(DirRoot, KeyB \o <<".">> \o ExtTxt, <<>>)>>}

\* the file system that holds the entries, below the root
DiskOf(entries) ==
    [p \in {entries[k].path : k \in 1..Len(entries)} \cup {DirRoot} |->
        IF p = DirRoot THEN DirNode(p)
        ELSE LET e == entries[CHOOSE k \in 1..Len(entries) : entries[k].path = p]
             IN  IF e.node = "dir" THEN DirNode(p) ELSE FileNode(p, e.contents)]

InitMain ==
    /\ pc = "construct"
    /\ \E extra \in ExtraEntries, backwards \in BOOLEAN :
          LET entries == IF backwards THEN Reverse(BaseEntries \o extra)
                         ELSE BaseEntries \o extra
          IN  /\ disk = DiskOf(entries)
              /\ all_files = [k \in 1..Len(entries) |-> FileTypeFrom(disk, entries[k].path)]
              /\ files_by_key = GroupByKey(all_files, <<>>)
    /\ key_index = 1
    /\ notion_objects = <<>>
    /\ all_objects_by_name = <<>>
    /\ invalid_key = <<>>
    /\ g = 1
    /\ paths_after_files_renamed = <<>>
    /\ new_paths_seen = {}
    /\ i = 1
    /\ desired_path = <<>>
    /\ add = 1
    /\ set_count = [u \in Uuids |-> 1]
    /\ IdleSplice
    /\ is_test \in BOOLEAN
    /\ file_index = 1
    /\ warnings = <<>>
    /\ writes = <<>>
    /\ renames = <<>>
    /\ object_index = 1
    /\ sorted_by_dir = <<>>
    /\ dir_index = 1

NextMain ==
    \/ ConstructKey
    \/ ConstructPanic
    \/ MainResolveNewNames
    \/ RewriteSkip
    \/ RewritePrepare
    \/ RewriteUntouched
    \/ RewriteWrite
    \/ MainRenameObjectsFiles
    \/ RenameFilesSkip
    \/ RenamePrimary
    \/ RenameCsvAll
    \/ RenameHtml
    \/ MainRenameDirectories
    \/ RenameDir
    \/ RenameDirectoriesReturn

SpecMain == InitMain /\ [][NextMain]_vars

-----------------------------------------------------------------------------
(* The fatal checks of the construction: C16, C17 *)

\* nothing has been written or renamed: the run is in the construction or
\* has ended there, and the disk is as it was
NothingMutated ==
    /\ pc \in {"construct", "panic"}
    /\ writes = <<>>
    /\ renames = <<>>
    /\ disk = DiskOf([k \in 1..Len(all_files) |->
                         [path |-> all_files[k].path,
                          node |-> IF all_files[k].tag = "Dir" THEN "dir" ELSE "file",
                          contents |-> disk[all_files[k].path].contents]])

StandardTags == {"Markdown", "Html", "Csv", "CsvAll", "Dir"}

\* the key of the entry has no space
NoSpace(file_type) == ~IsSome(RFindSpace(GetFileKey(file_type)))

\* the entries of the given tags whose key has no space
Malformed(tags) ==
    {k \in 1..Len(all_files) : all_files[k].tag \in tags /\ NoSpace(all_files[k])}

\* C16: when a Markdown, Html, Csv, CsvAll or Dir entry has a key without a
\* space, the run ends in the construction of the objects, with nothing
\* written and nothing renamed.
C16_MalformedNameFatal == Malformed(StandardTags) # {} => NothingMutated

\* the Html entries whose key is "index"
IndexEntries == {k \in 1..Len(all_files) :
                    all_files[k].tag = "Html" /\ GetFileKey(all_files[k]) = INDEX_KEY}

\* C16 for the files: when a Markdown, Html, Csv or CsvAll entry other than
\* index.html has a key without a space, the run ends in the construction of
\* the objects, with nothing written and nothing renamed.
C16_MalformedFileFatal ==
    Malformed(StandardTags \ {"Dir"}) \ IndexEntries # {} => NothingMutated

\* the construction has ended on the panic of a key after another key gave
\* its objects, one entry being a file whose key has no space
C16_Witness ==
    /\ pc = "panic"
    /\ key_index > 1
    /\ notion_objects # <<>>
    /\ Malformed(StandardTags \ {"Dir"}) \ IndexEntries # {}
    /\ writes = <<>>
    /\ renames = <<>>

\* the tags of the entries of a key
TagsOf(group) == {group.file_types[k].tag : k \in 1..Len(group.file_types)}

\* the combinations of tags of a Page, of a Database and of a directory alone
Recognised ==
    {{p} \cup d : p \in {"Markdown", "Html"}, d \in SUBSET {"Dir"}}
    \cup {{"Csv"} \cup c : c \in SUBSET {"Html", "CsvAll", "Dir"}}
    \cup {{"Dir"}}

\* the keys that have a Markdown, Html, Csv, CsvAll or Dir entry and whose
\* tags are no recognised combination
Ambiguous ==
    {k \in 1..Len(files_by_key) :
        /\ TagsOf(files_by_key[k]) \cap StandardTags # {}
        /\ TagsOf(files_by_key[k]) \notin Recognised}

\* C17: when the tags of the entries of a key are not those of a Page (one
\* of Markdown and Html, with or without Dir), of a Database (Csv, with or
\* without Html, CsvAll and Dir) or of a directory alone, the run ends in the
\* construction of the objects, with nothing written and nothing renamed.
C17_AmbiguousGroupingFatal == Ambiguous # {} => NothingMutated

\* the construction has ended on the panic of an ambiguous key, every key
\* of the tree having a space, after another key gave its objects
C17_Witness ==
    /\ pc = "panic"
    /\ key_index > 1
    /\ notion_objects # <<>>
    /\ Ambiguous # {}
    /\ Malformed(StandardTags) = {}
    /\ writes = <<>>
    /\ renames = <<>>

(***************************************************************************)
(* The rename loops of main.rs                                             *)
(***************************************************************************)

\* EntryRef::from_file_path: the entry of a markdown file, with the
\* directory and the csv files that have its name_uuid
FromFilePath(file_path, directories, csvs) ==
    LET name_uuid == FileStem(file_path)
        last_space_index == IF IsSome(RFindSpace(name_uuid))
                            THEN Unwrap(RFindSpace(name_uuid)) ELSE 0
        Get(paths, stem) ==
            IF \E q \in paths : FileStem(q) = stem
            THEN Some(CHOOSE q \in paths : FileStem(q) = stem) ELSE None
    IN  [name_uuid |-> name_uuid,
         name |-> SubSeq(name_uuid, 1, last_space_index),
         new_name |-> None,
         file_path |-> file_path,
         dir_path |-> IF \E q \in directories : FileName(q) = name_uuid
                      THEN Some(CHOOSE q \in directories : FileName(q) = name_uuid)
                      ELSE None,
         csv_path |-> Get(csvs, name_uuid),
         csv_all_path |-> Get(csvs, name_uuid \o AllSuffix)]

\* main, "Managing duplicates": the first of the name and the name followed
\* by 1, 2, .. that no earlier entry has
RECURSIVE NameThatWorks(_, _, _)
NameThatWorks(desired_name, seen, n) ==
    LET name_that_works == IF n = 0 THEN desired_name
                           ELSE desired_name \o <<" ">> \o Dec(n)
    IN  IF name_that_works \in seen THEN NameThatWorks(desired_name, seen, n + 1)
        ELSE name_that_works

RECURSIVE ManageDuplicates(_, _, _)
ManageDuplicates(entries, k, seen) ==
    IF k > Len(entries) THEN entries
    ELSE LET name_that_works == NameThatWorks(entries[k].name, seen, 0)
         IN  ManageDuplicates([entries EXCEPT ![k].new_name = Some(name_that_works)],
                              k + 1, seen \cup {name_that_works})

\* insertion of one entry into a list sorted by the length of its dir_path,
\* the longest first, after every equal length
RECURSIVE InsertByDirPathLen(_, _)
InsertByDirPathLen(entry, sorted) ==
    LET Key(e) == 0 - Len(PathToStr(UnwrapOrDefault(e.dir_path)))
    IN  IF sorted = <<>> THEN <<entry>>
        ELSE IF Key(entry) < Key(Head(sorted)) THEN <<entry>> \o sorted
        ELSE <<Head(sorted)>> \o InsertByDirPathLen(entry, Tail(sorted))

\* entries_sorted_by_dir_path
RECURSIVE EntriesSortedByDirPath(_)
EntriesSortedByDirPath(entries) ==
    IF entries = <<>> THEN <<>>
    ELSE InsertByDirPathLen(entries[Len(entries)],
                            EntriesSortedByDirPath(SubSeq(entries, 1, Len(entries) - 1)))

\* a call fs::rename(old, new) whose error is printed: the run goes on
FsRenameReported(pass, old, new) ==
    /\ renames' = Append(renames,
                         [pass |-> pass, old |-> old, new |-> new,
                          ok |-> RenameSucceeds(disk, old, new),
                          own |-> old \in DOMAIN disk /\ disk[old].origin = old])
    /\ disk' = IF RenameSucceeds(disk, old, new) THEN Renamed(disk, old, new) ELSE disk

CurrentEntry == notion_objects[object_index]

\* "Renaming files", one entry
MainRenamingFiles ==
    /\ pc = "renaming_files"
    /\ object_index <= Len(notion_objects)
    /\ FsRenameReported("file", CurrentEntry.file_path,
           WithExtension(WithFileName(CurrentEntry.file_path, Unwrap(CurrentEntry.new_name)),
                         Unwrap(Extension(CurrentEntry.file_path))))
    /\ object_index' = object_index + 1
    /\ UNCHANGED <<pc, resolveVars, spliceVars, is_test, all_files, file_index, warnings, writes,
                   sorted_by_dir, dir_index, constructVars>>

\* on to "Renaming csvs"
MainFilesRenamed ==
    /\ pc = "renaming_files"
    /\ object_index > Len(notion_objects)
    /\ pc' = "renaming_csvs"
    /\ object_index' = 1
    /\ UNCHANGED <<resolveVars, spliceVars, rewriteVars, renames, sorted_by_dir, dir_index,
                   constructVars>>

\* "Renaming csvs", one entry
MainRenamingCsvs ==
    /\ pc = "renaming_csvs"
    /\ object_index <= Len(notion_objects)
    /\ IF IsSome(CurrentEntry.csv_path)
       THEN FsRenameReported("file", Unwrap(CurrentEntry.csv_path),
                WithExtension(WithFileName(Unwrap(CurrentEntry.csv_path),
                                           Unwrap(CurrentEntry.new_name)), ExtCsv))
       ELSE UNCHANGED <<renames, disk>>
    /\ object_index' = object_index + 1
    /\ UNCHANGED <<pc, resolveVars, spliceVars, is_test, all_files, file_index, warnings, writes,
                   sorted_by_dir, dir_index, constructVars>>

\* on to "Renaming directories": the entries are sorted
MainCsvsRenamed ==
    /\ pc = "renaming_csvs"
    /\ object_index > Len(notion_objects)
    /\ sorted_by_dir' = EntriesSortedByDirPath(notion_objects)
    /\ dir_index' = 1
    /\ pc' = "renaming_directories"
    /\ UNCHANGED <<resolveVars, spliceVars, rewriteVars, renames, object_index, constructVars>>

\* "Renaming directories", one entry
MainRenamingDirectories ==
    /\ pc = "renaming_directories"
    /\ dir_index <= Len(sorted_by_dir)
    /\ IF IsSome(CurrentDirObject.dir_path)
       THEN FsRenameReported("dir", Unwrap(CurrentDirObject.dir_path),
                WithFileName(Unwrap(CurrentDirObject.dir_path),
                             Unwrap(CurrentDirObject.new_name)))
       ELSE UNCHANGED <<renames, disk>>
    /\ dir_index' = dir_index + 1
    /\ UNCHANGED <<pc, resolveVars, spliceVars, is_test, all_files, file_index, warnings, writes,
                   object_index, sorted_by_dir, constructVars>>

\* main returns
MainReturn ==
    /\ pc = "renaming_directories"
    /\ dir_index > Len(sorted_by_dir)
    /\ pc' = "done"
    /\ UNCHANGED <<resolveVars, spliceVars, rewriteVars, renameVars, constructVars>>

\* a tree: three markdown files, two with a directory, one with a csv
DirC == DirA \o <<KeyC>>

MarkdownFiles ==
    <<DirRoot \o <<KeyA \o <<".">> \o ExtMd>>,
      DirRoot \o <<KeyB \o <<".">> \o ExtMd>>,
      DirA \o <<KeyC \o <<".">> \o ExtMd>>>>

\* what stands in the way of a rename: a directory "P.md", a directory
\* "P.csv", a directory "D" that is not empty
Blockers ==
    {<<EntryDir(DirRoot, NamePlain \o <<".">> \o ExtMd)>>,
     <<EntryDir(DirRoot, NamePlain \o <<".">> \o ExtCsv)>>,
     <<EntryDir(DirA, NameD), EntryFile(DirA \o <<NameD>>, <<"b", ".">> \o ExtBin, InvalidData)>>}

RECURSIVE Concat(_)
Concat(seqs) ==
    IF seqs = {} THEN <<>>
    ELSE LET one == CHOOSE q \in seqs : TRUE IN one \o Concat(seqs \ {one})

InitRenaming ==
    /\ pc = "renaming_files"
    /\ \E files \in Orders(MarkdownFiles), blockers \in SUBSET Blockers :
          LET entries == [k \in 1..Len(files) |-> EntryFile(Parent(files[k]), FileName(files[k]), <<>>)]
                         \o <<EntryDir(DirRoot, KeyA), EntryDir(DirA, KeyC),
                              EntryFile(DirRoot, KeyB \o <<".">> \o ExtCsv, <<>>)>>
                         \o Concat(blockers)
              fs == DiskOf(entries)
          IN  /\ disk = fs
              /\ notion_objects =
                     ManageDuplicates(
                         [k \in 1..Len(files) |->
                             FromFilePath(files[k],
                                          {q \in DOMAIN fs : fs[q].kind = "dir"},
                                          {q \in DOMAIN fs : fs[q].kind = "file"
                                                              /\ Extension(q) = Some(ExtCsv)})],
                         1, {})
    /\ IdleResolve
    /\ IdleSplice
    /\ is_test = FALSE
    /\ all_files = <<>>
    /\ file_index = 1
    /\ warnings = <<>>
    /\ writes = <<>>
    /\ IdleRename
    /\ files_by_key = <<>>
    /\ key_index = 1

NextRenaming ==
    \/ MainRenamingFiles
    \/ MainFilesRenamed
    \/ MainRenamingCsvs
    \/ MainCsvsRenamed
    \/ MainRenamingDirectories
    \/ MainReturn

SpecRenaming == InitRenaming /\ [][NextRenaming]_vars

-----------------------------------------------------------------------------
(* The failure of a rename: C18 *)

\* C18: a rename of the file pass or of the directory pass that fails ends
\* the run: it is the last call of the log, and no rename is issued after it.
C18_RenameFailureFatal ==
    \A n \in 1..Len(renames) :
        ~renames[n].ok => (n = Len(renames) /\ pc = "panic")

-----------------------------------------------------------------------------
(* The rewrite of a rewritten content: C19 *)

\* the content of the current file once its new content is applied
AfterRewrite == IF result.kind = "some" THEN result.text ELSE file_contents

\* the descriptors of the rewritten content, for the same path and objects
SecondDescriptors == PrepareRenameRefsInContent(AfterRewrite, CurrentFile.path, AllObjects)

\* C19: the rewrite of a file is idempotent: prepare_rename_refs_in_content
\* and do_rename_refs_in_content applied to the content they have produced,
\* for the same file path and the same objects, change nothing more.
C19_RewriteIdempotent ==
    (pc = "new_content" /\ result.kind # "panic") =>
        LET again == DoRenameRefsInContent(AfterRewrite, SecondDescriptors)
        IN  \/ again.kind = "none"
            \/ again.kind = "some" /\ again.text = AfterRewrite

-----------------------------------------------------------------------------
(* The candidate path of an object: C20 *)

\* C20: in a group of more than one object, the candidate path that is
\* tested and claimed for the i-th object of the sorted list is the one built
\* from that object's own path: the display name with its own extension in
\* its own directory.
C20_OwnCandidatePath ==
    (pc \in {"object", "while"} /\ i <= Len(Group.objects)) =>
        /\ paths_after_files_renamed[i] = PathAfterFileRenamed(Group.objects[i], Group.name)
        /\ (pc = "while" /\ add = 1) =>
              /\ Parent(desired_path) = Parent(Group.objects[i].path)
              /\ Extension(desired_path) = Extension(Group.objects[i].path)

-----------------------------------------------------------------------------
(* The end of the suffix search: C21 *)

\* the objects that claim one path: the Pages of one directory and one
\* extension, and a text file beside them
SlotMembers(nm) ==
    {PageObject(DirRoot, nm, u, ExtMd, FALSE) : u \in Uuids}
    \cup {OtherObject("OtherText", DirRoot, nm, ExtTxt)}

\* the state before resolve_new_names is called on a group of such objects
InitSearch ==
    /\ pc = "group"
    /\ \E nm \in Names, n \in 1..MaxGroup :
         \E objs \in {l \in [1..n -> SlotMembers(nm)] : DistinctObjects(l)} :
            all_objects_by_name = << [name |-> nm, objects |-> objs] >>
    /\ invalid_key \in {<<>>, <<"i", "n", "v", "a", "l", "i", "d">>}
    /\ g = 1
    /\ paths_after_files_renamed = <<>>
    /\ new_paths_seen = {}
    /\ i = 1
    /\ desired_path = <<>>
    /\ add = 1
    /\ set_count = [u \in Uuids |-> 0]
    /\ IdleSplice
    /\ IdleRewrite
    /\ IdleRename
    /\ IdleConstruct

\* resolve_new_names runs on: a step that can be taken is taken
SpecSearch == InitSearch /\ [][NextResolve]_vars /\ WF_vars(NextResolve)

-----------------------------------------------------------------------------
(* The form of a resolved name: C22 *)

\* the display name, and the display name followed by " " and 1, 2, ..
NamesFrom(name) == {name} \cup {name \o <<" ">> \o Dec(n) : n \in 1..(MaxAdd + 1)}

\* C22: every resolved name is the display name of the object or the
\* display name followed by a space and a positive decimal number, whatever
\* the display name is.
C22_NameOrNumbered ==
    pc = "resolved" =>
        \A k \in Renamable :
            IsSome(Obj(k).new_name) => Unwrap(Obj(k).new_name) \in NamesFrom(Obj(k).name)

-----------------------------------------------------------------------------
(* The parentheses around a link: C23 *)

\* the offsets of the '(' that precede the marker found at offset m, and of
\* the ')' that follow it
OpenParsBefore(text, m) == {pos \in 0..(m - 1) : text[pos + 1] = "("}

CloseParsAfter(text, m) == {pos \in m..(Len(text) - 1) : text[pos + 1] = ")"}

LinkMarkerStarts == MatchIndices(file_contents, NOTION_LINK_MARKER)

\* C23: the range replaced for an occurrence of the marker lies between the
\* nearest parentheses around it: it starts after the last '(' that precedes
\* the marker and ends at the first ')' that follows it.
C23_NearestParentheses ==
    pc = "new_content" =>
        \A k \in 1..Len(LinkMarkerStarts) :
            LET m == LinkMarkerStarts[k]
                range == MarkerRange(file_contents, m)
            IN  IsSome(range) =>
                    /\ \A pos \in OpenParsBefore(file_contents, m) : pos < Unwrap(range).start
                    /\ Unwrap(range).start - 1 \in OpenParsBefore(file_contents, m)
                    /\ \A pos \in CloseParsAfter(file_contents, m) : Unwrap(range).end <= pos
                    /\ Unwrap(range).end \in CloseParsAfter(file_contents, m)

-----------------------------------------------------------------------------
(* The text that replaces a link: C24 *)

\* the Page/Database objects whose uuid a marker range of the current file holds
LinkedObjects(marker) ==
    {k \in 1..Len(AllObjects) :
        /\ IsPageOrDataset(AllObjects[k])
        /\ IsSome(AllObjects[k].new_name)
        /\ Contains(Slice(file_contents, marker.start, marker.end), AllObjects[k].uuid)}

\* the path of an object relative to the directory of a file, under its new name
RelativeToDirectory(obj, file_path) ==
    Replace(PathToStr(DiffPaths(obj.path, Parent(file_path))),
            GetNameUuid(obj), Unwrap(obj.new_name))

\* the descriptors of the current file that cover a marker range
DescriptorsOver(marker) ==
    {k \in 1..Len(all_descriptors) :
        /\ all_descriptors[k].start = marker.start
        /\ all_descriptors[k].end = marker.end}

\* C24: the text that replaces a link is the path of the object the link
\* refers to, relative to the directory that holds the file in which the
\* link stands, with the object's name and uuid replaced by its new name.
C24_RelativeToDirectory ==
    pc = "new_content" =>
        LET markers == NotionLinksMarkers(file_contents)
        IN  \A m \in 1..Len(markers) :
                /\ LinkedObjects(markers[m]) # {} => DescriptorsOver(markers[m]) # {}
                /\ \A k \in DescriptorsOver(markers[m]) :
                      \E o \in LinkedObjects(markers[m]) :
                          all_descriptors[k].new_text =
                              RelativeToDirectory(AllObjects[o], CurrentFile.path)

-----------------------------------------------------------------------------
(* What the descriptors of a file are computed on: C25 *)

RenamedObjects == {k \in 1..Len(AllObjects) : IsPageOrDataset(AllObjects[k])}

\* d replaces a reference to the object as it stands in the content read
\* from the disk
ReplacesReference(d, obj) ==
    /\ IsSome(ReplacableRefs(obj))
    /\ \E r \in 1..Len(Unwrap(ReplacableRefs(obj))) :
          LET ref == Unwrap(ReplacableRefs(obj))[r]
          IN  /\ d.end = d.start + Len(ref.old_ref)
              /\ OccursAt(disk[CurrentFile.path].contents, ref.old_ref, d.start)
              /\ d.new_text = ref.new_ref

\* d replaces a link to the object as it stands in the content read from
\* the disk
ReplacesLink(d, obj) ==
    /\ IsSome(GetRelativePath(obj, CurrentFile.path))
    /\ d.new_text = Unwrap(GetRelativePath(obj, CurrentFile.path))
    /\ \E m \in 1..Len(NotionLinksMarkers(disk[CurrentFile.path].contents)) :
          LET marker == NotionLinksMarkers(disk[CurrentFile.path].contents)[m]
          IN  /\ d.start = marker.start
              /\ d.end = marker.end
              /\ Contains(Slice(disk[CurrentFile.path].contents, d.start, d.end), obj.uuid)

-----------------------------------------------------------------------------
(* The targets of the objects of one directory: C26 *)

\* the Page/Database objects of a list that have their new name
NamedIn(objs) == {k \in 1..Len(objs) : IsPageOrDataset(objs[k]) /\ IsSome(objs[k].new_name)}

\* C26: two Page/Database objects whose files are in one directory and have
\* one extension are never resolved to the same name, in whatever order the
\* group is given, so that the file pass never renames both to one path.
C26_DistinctFileTargets ==
    pc = "resolved" =>
        \A objs \in Orders(Unresolved(all_objects_by_name[1].objects)) :
            LET resolved == ResolveGroup(objs, all_objects_by_name[1].name)
            IN  \A j, k \in NamedIn(resolved) :
                    (j # k /\ SameSlot(resolved[j], resolved[k])) =>
                        /\ resolved[j].new_name # resolved[k].new_name
                        /\ NewPath(resolved[j]) # NewPath(resolved[k])

-----------------------------------------------------------------------------
(* The targets of the directory pass: C27 *)

\* the objects that own a directory and have their new name
NamedOwners == {k \in 1..Len(AllObjects) : HasDir(AllObjects[k]) /\ IsSome(AllObjects[k].new_name)}

\* C27: the directory pass never gives two owned directories one target:
\* two objects whose directories have the same parent do not have the same
\* new name, and no two renames of the pass have the same new path.
C27_DistinctDirTargets ==
    /\ pc = "rename_dirs" =>
          \A j, k \in NamedOwners :
              (j # k /\ Parent(Unwrap(GetDir(AllObjects[j]))) = Parent(Unwrap(GetDir(AllObjects[k]))))
                  => AllObjects[j].new_name # AllObjects[k].new_name
    /\ \A m, n \in RenamesOf("dir") : m # n => renames[m].new # renames[n].new

-----------------------------------------------------------------------------
(* The descriptors the removal loop leaves: C28 *)

\* C28: the descriptors that are left when the removal loop is over are in
\* ascending order and no two of them overlap, so the reconstruction loop
\* never slices the text from a cursor that is past the start of the next
\* range: do_rename_refs_in_content does not panic.
C28_KeptDisjointAscending ==
    /\ pc \in {"rebuild", "spliced"} =>
          \A j, k \in 1..Len(descriptors) :
              j < k => descriptors[j].end <= descriptors[k].start
    /\ pc = "spliced" => result.kind # "panic"

-----------------------------------------------------------------------------
(* The order of the descriptors: C29 *)

\* C29: the text do_rename_refs_in_content returns does not depend on the
\* order in which the descriptors are listed: every permutation of the list
\* gives the same result.
C29_OrderOfDescriptors ==
    pc = "spliced" =>
        \A ds \in Orders(all_descriptors) :
            DoRenameRefsInContent(file_contents, ds) = result

-----------------------------------------------------------------------------
(* The identifiers in the text that replaces a link: C30 *)

\* C30: the text that replaces a link holds the identifier of no Page or
\* Database: the directories of other objects on the way to the linked
\* object stand in it under their new names.
C30_LinkTextWithoutIdentifiers ==
    pc = "new_content" =>
        LET markers == NotionLinksMarkers(file_contents)
        IN  \A m \in 1..Len(markers) :
                \A k \in DescriptorsOver(markers[m]) :
                    \A o \in RenamedObjects :
                        ~Contains(all_descriptors[k].new_text, AllObjects[o].uuid)

====
